---- MODULE Spec2Model ----
(***************************************************************************)
(* Canonical-ABI guest bindings of fermyon/spin (wit-bindgen C output used *)
(* by the go, nim and zig SDKs): the weakly linked allocator pair, the     *)
(* import wrappers that decode a host-populated static RET_AREA, and the   *)
(* export wrappers that encode the handler's result into one.              *)
(*                                                                         *)
(* Memory is modelled byte by byte.  A scalar is the tuple of its bytes in *)
(* little-endian order, so an integer cast is a truncation or a zero       *)
(* extension of that tuple and a pointer is a 4-byte tuple (wasm32).       *)
(***************************************************************************)
EXTENDS Integers, Sequences, FiniteSets, TLC

VARIABLES
    \* ---- allocator (libc heap behind canonical_abi_realloc / _free) ----
    linked,      \* the binding file whose weak allocator definitions are linked
    heap,        \* set of live block addresses handed out by realloc
    allocCall,   \* the latest canonical_abi_* call and what it did
    aborted,     \* abort() was called: the process is gone
    \* ---- return areas and the call in progress ----
    retArea,     \* file -> bytes of that file's static RET_AREA
    areaState,   \* file -> "idle" | "populated"  (occupancy of the area)
    pc,          \* "idle" | "issued" | "populated" | "handler"
    cur,         \* name of the wrapper being executed ("" when none)
    hostVal,     \* the value the host produced for the call in progress
    ret0,        \* what the wrapper stored through its ret0 out-pointer
    retval,      \* the wrapper's scalar return value
    trace,       \* bookkeeping of the latest wrapper run (reads, accesses)
    handlerRet,  \* export and result of the latest user handler that returned
    calls,       \* number of wrapper calls issued so far
    kept,        \* an earlier delivered result the caller still holds
    \* ---- values in guest memory and the calls that consume them ----
    obj,         \* the memory-resident value at hand and its free function
    freeLog,     \* what the latest run of a free function did
    argLog       \* the scalars the latest import wrapper passed to the host

vars == <<linked, heap, allocCall, aborted, retArea, areaState, pc, cur, hostVal,
          ret0, retval, trace, handlerRet, calls, kept, obj, freeLog, argLog>>

allocVars == <<linked, heap, allocCall, aborted>>
codecVars == <<retArea, areaState, pc, cur, hostVal, ret0, retval, trace,
               handlerRet, calls>>
memVars == <<obj, freeLog, argLog>>

----------------------------------------------------------------------------
(* Bounds of the model *)

\* number of distinct heap blocks the libc allocator can hand out
MaxBlocks == 2
\* largest size argument passed to the allocator entry points
MaxSize == 2
\* number of wrapper calls (imports and exports) in a behaviour
MaxCalls == 2
\* largest number of elements of a string or list in guest memory
MaxLen == 2
\* number of times a free function is run on the same value
MaxFrees == 2

----------------------------------------------------------------------------
(* Binding files *)

\* Files whose canonical_abi_realloc / canonical_abi_free test for size 0
\* before calling libc.
GuardedFiles ==
    { "go/redis/spin-redis.c", "go/redis/outbound-redis.c",
      "go/config/spin-config.c", "go/pg/outbound-pg.c",
      "go/mysql/outbound-mysql.c", "go/sqlite/sqlite.c", "go/llm/llm.c",
      "go/key-value/key-value.c", "zig/src/spin-config.c" }

\* Files generated by the older wit-bindgen: both entry points forward
\* unconditionally to libc.
UnguardedFiles ==
    { "go/http/spin-http.c", "go/http/wasi-outbound-http.c",
      "go/outbound_redis/outbound-redis.c",
      "nim/spin-http.c", "nim/wasi-outbound-http.c" }

Files == GuardedFiles \cup UnguardedFiles

----------------------------------------------------------------------------
(* Allocator *)

NULL == 0

\* Addresses libc can return: multiples of 16, never equal to an alignment.
Blocks == { 16 * i : i \in 1..MaxBlocks }

\* Alignments of the canonical ABI (powers of two up to 8).
Aligns == {1, 2, 4, 8}

Sizes == 0..MaxSize

\* libc realloc(ptr, n) on heap h.  q is the outcome libc chooses: NULL
\* (failure, or the implementation-defined answer to n = 0) or the
\* address of the resulting block; rel says whether a NULL answer to
\* n = 0 released ptr (implementation-defined).
realloc(h, ptr, n, q, rel) ==
    IF q = NULL
    THEN [ret |-> NULL, heap |-> IF n = 0 /\ rel THEN h \ {ptr} ELSE h]
    ELSE [ret |-> q, heap |-> (h \ {ptr}) \cup {q}]

\* libc free(ptr) on heap h.
free(h, ptr) == h \ {ptr}

\* Outcomes <<q, rel>> libc may choose for realloc(ptr, n) on heap h.
ReallocOutcomes(h, ptr, n) ==
    { <<NULL, FALSE>> }
    \cup (IF n = 0 THEN { <<NULL, TRUE>> } ELSE {})
    \cup { <<b, FALSE>> : b \in Blocks \ (h \ {ptr}) }

\* canonical_abi_realloc without the "if (!ret) abort();" test: a NULL from
\* libc is handed back to the caller.
canonical_abi_realloc_unchecked(f, h, ptr, orig_size, align, new_size, q, rel) ==
    IF f \in GuardedFiles /\ new_size = 0
    THEN [ret |-> align, heap |-> h, libc |-> FALSE, abort |-> FALSE,
          returned |-> TRUE]
    ELSE LET r == realloc(h, ptr, new_size, q, rel) IN
         [ret |-> r.ret, heap |-> r.heap, libc |-> TRUE, abort |-> FALSE,
          returned |-> TRUE]

\* canonical_abi_realloc of file f.  Result: ret (the value returned, NULL
\* when nothing is returned), heap, libc (was realloc invoked), abort,
\* returned (did control come back to the caller).
canonical_abi_realloc(f, h, ptr, orig_size, align, new_size, q, rel) ==
    IF f \in GuardedFiles /\ new_size = 0
    THEN [ret |-> align, heap |-> h, libc |-> FALSE, abort |-> FALSE,
          returned |-> TRUE]
    ELSE LET r == realloc(h, ptr, new_size, q, rel) IN
         IF r.ret = NULL
         THEN [ret |-> NULL, heap |-> r.heap, libc |-> TRUE, abort |-> TRUE,
               returned |-> FALSE]
         ELSE [ret |-> r.ret, heap |-> r.heap, libc |-> TRUE,
               abort |-> FALSE, returned |-> TRUE]

\* canonical_abi_free of file f.  Result: heap, libc (was free invoked).
canonical_abi_free(f, h, ptr, size, align) ==
    IF f \in GuardedFiles /\ size = 0
    THEN [heap |-> h, libc |-> FALSE]
    ELSE [heap |-> free(h, ptr), libc |-> TRUE]

NoAllocCall ==
    [fn |-> "none", ptr |-> NULL, size |-> 0, align |-> 1,
     ret |-> NULL, returned |-> FALSE, libc |-> FALSE, heapBefore |-> {}]

\* A caller (guest code or the host) invokes canonical_abi_realloc, which
\* is the definition of the linked binding file.  ptr is NULL or a live
\* block whenever libc is going to see it.
Realloc(ptr, orig_size, align, new_size) ==
    /\ ~aborted
    /\ pc = "idle"
    /\ \/ linked \in GuardedFiles /\ new_size = 0
       \/ ptr \in {NULL} \cup heap
    /\ \E o \in ReallocOutcomes(heap, ptr, new_size) :
          LET r == canonical_abi_realloc(linked, heap, ptr, orig_size, align,
                                         new_size, o[1], o[2]) IN
          /\ heap' = r.heap
          /\ aborted' = r.abort
          /\ allocCall' = [fn |-> "realloc", ptr |-> ptr,
                           size |-> new_size, align |-> align, ret |-> r.ret,
                           returned |-> r.returned, libc |-> r.libc,
                           heapBefore |-> heap]
    /\ UNCHANGED linked
    /\ UNCHANGED codecVars
    /\ UNCHANGED <<kept, memVars>>

\* A caller invokes canonical_abi_free.
Free(ptr, size, align) ==
    /\ ~aborted
    /\ pc = "idle"
    /\ \/ linked \in GuardedFiles /\ size = 0
       \/ ptr \in {NULL} \cup heap
    /\ LET r == canonical_abi_free(linked, heap, ptr, size, align) IN
       /\ heap' = r.heap
       /\ allocCall' = [fn |-> "free", ptr |-> ptr,
                        size |-> size, align |-> align, ret |-> NULL,
                        returned |-> TRUE, libc |-> r.libc,
                        heapBefore |-> heap]
    /\ UNCHANGED <<aborted, linked>>
    /\ UNCHANGED codecVars
    /\ UNCHANGED <<kept, memVars>>

InitAllocVars ==
    /\ linked \in Files
    /\ heap = {}
    /\ allocCall = NoAllocCall
    /\ aborted = FALSE

----------------------------------------------------------------------------
(* Bytes and scalar conversions *)

Max(S) == CHOOSE x \in S : \A y \in S : y <= x

RoundUp(n, a) == ((n + a - 1) \div a) * a

\* *((T*)(ptr + off)) as a read: the w bytes at off, low byte first.  A byte
\* outside the area belongs to whatever object the linker placed next to it.
Load(a, off, w) ==
    [j \in 1..w |-> IF off + j - 1 \in DOMAIN a THEN a[off + j - 1] ELSE 0]

\* *((T*)(ptr + off)) = b as a write of the bytes b at off.
Store(a, off, b) ==
    [i \in DOMAIN a |->
        IF off <= i /\ i < off + Len(b) THEN b[i - off + 1] ELSE a[i]]

\* Integer conversion between widths: truncation keeps the low bytes,
\* widening an unsigned value appends zero bytes.
Resize(b, w) == [j \in 1..w |-> IF j <= Len(b) THEN b[j] ELSE 0]

\* Conversion of a scalar to C bool.
ToBool(b) == << IF \A j \in DOMAIN b : b[j] = 0 THEN 0 ELSE 1 >>

\* The unsigned value of a single byte read as (int32_t)(uint8_t).
ByteVal(b) == b[1]

\* A recognisable w-byte value for the field at offset off, chosen during
\* call number s of the behaviour.
Pattern(off, w, s) == [j \in 1..w |-> (64 * s + 8 * off + j) % 256]

----------------------------------------------------------------------------
(* Interface types and the canonical ABI layout rules *)

Prim(w) == [k |-> "prim", w |-> w]
U8   == Prim(1)
U16  == Prim(2)
U32  == Prim(4)
U64  == Prim(8)
Bool == [k |-> "bool"]
Unit == [k |-> "unit"]
\* string and list<T>: a (pointer, length) pair
Pair == [k |-> "pair"]
\* list<T> with its element type; a string is a list of bytes
List(T) == [k |-> "list", el |-> T]
Enum(n) == [k |-> "enum", n |-> n]
Record(fs) == [k |-> "record", fields |-> fs]
Variant(cs) == [k |-> "variant", cases |-> cs]
Option(T) == Variant(<<Unit, T>>)
Result(ok, err) == Variant(<<ok, err>>)

\* width of a variant's discriminant: the smallest unsigned integer type
\* able to enumerate n cases
TagSize(n) == IF n <= 256 THEN 1 ELSE IF n <= 65536 THEN 2 ELSE 4

RECURSIVE Align(_)
Align(T) ==
    CASE T.k = "prim"    -> T.w
      [] T.k = "bool"    -> 1
      [] T.k = "unit"    -> 1
      [] T.k = "enum"    -> TagSize(T.n)
      [] T.k = "pair"    -> 4
      [] T.k = "list"    -> 4
      [] T.k = "record"  ->
            Max({1} \cup { Align(T.fields[i]) : i \in DOMAIN T.fields })
      [] T.k = "variant" ->
            Max({TagSize(Len(T.cases))}
                \cup { Align(T.cases[i]) : i \in DOMAIN T.cases })

RECURSIVE Size(_)
RECURSIVE EndOffset(_, _)

\* offset just past field i of record T (0 before the first field)
EndOffset(T, i) ==
    IF i = 0 THEN 0
    ELSE RoundUp(EndOffset(T, i - 1), Align(T.fields[i])) + Size(T.fields[i])

\* offset of field i of record T
FieldOffset(T, i) == RoundUp(EndOffset(T, i - 1), Align(T.fields[i]))

\* offset of the payload shared by all cases of variant T
PayloadOffset(T) ==
    RoundUp(TagSize(Len(T.cases)),
            Max({1} \cup { Align(T.cases[i]) : i \in DOMAIN T.cases }))

Size(T) ==
    CASE T.k = "prim"    -> T.w
      [] T.k = "bool"    -> 1
      [] T.k = "unit"    -> 0
      [] T.k = "enum"    -> TagSize(T.n)
      [] T.k = "pair"    -> 8
      [] T.k = "list"    -> 8
      [] T.k = "record"  -> RoundUp(EndOffset(T, Len(T.fields)), Align(T))
      [] T.k = "variant" ->
            RoundUp(PayloadOffset(T)
                    + Max({0} \cup { Size(T.cases[i]) : i \in DOMAIN T.cases }),
                    Align(T))

\* Values.  prim, bool, enum: the tuple of its bytes; pair: [ptr, len] of
\* two 4-byte tuples; unit: <<>>; record: the tuple of its field values;
\* variant: [tag, val] with val the payload of case tag (<<>> when the tag
\* names no case).

\* The host's encoder: value v of type T written at offset off of area a.
\* Only the discriminant and the active case are written; padding and the
\* bytes of inactive cases keep what they held.
RECURSIVE Lower(_, _, _, _)
RECURSIVE LowerFields(_, _, _, _, _)
Lower(a, off, T, v) ==
    CASE T.k \in {"prim", "bool", "enum"} -> Store(a, off, v)
      [] T.k = "unit"    -> a
      [] T.k = "pair"    -> Store(Store(a, off, v.ptr), off + 4, v.len)
      [] T.k = "record"  -> LowerFields(a, off, T, v, Len(T.fields))
      [] T.k = "variant" ->
            LET a1 == Store(a, off, Resize(<<v.tag % 256>>,
                                           TagSize(Len(T.cases)))) IN
            IF v.tag + 1 \in DOMAIN T.cases
            THEN Lower(a1, off + PayloadOffset(T), T.cases[v.tag + 1], v.val)
            ELSE a1

LowerFields(a, off, T, v, n) ==
    IF n = 0 THEN a
    ELSE Lower(LowerFields(a, off, T, v, n - 1),
               off + FieldOffset(T, n), T.fields[n], v[n])

\* Discriminants outside the declared cases that a misbehaving host may
\* write for a variant of n cases.
BadTags(n) == {n, 255}

\* The values of type T the host chooses from during call s, were the
\* value to live at offset off.
RECURSIVE Vals(_, _, _)
RECURSIVE FieldVals(_, _, _, _)
Vals(T, off, s) ==
    CASE T.k = "prim"    -> { Pattern(off, T.w, s) }
      [] T.k = "bool"    -> { <<0>>, <<1>> }
      [] T.k = "unit"    -> { <<>> }
      [] T.k = "enum"    -> { <<c>> : c \in (0..(T.n - 1)) \cup BadTags(T.n) }
      [] T.k = "pair"    -> { [ptr |-> Pattern(off, 4, s),
                               len |-> Pattern(off + 4, 4, s)] }
      [] T.k = "record"  -> FieldVals(T, off, s, Len(T.fields))
      [] T.k = "variant" ->
            UNION { { [tag |-> c - 1, val |-> x] :
                        x \in Vals(T.cases[c], off + PayloadOffset(T), s) } :
                    c \in DOMAIN T.cases }
            \cup { [tag |-> t, val |-> <<>>] : t \in BadTags(Len(T.cases)) }

FieldVals(T, off, s, n) ==
    IF n = 0 THEN { <<>> }
    ELSE { Append(p, x) : p \in FieldVals(T, off, s, n - 1),
                          x \in Vals(T.fields[n], off + FieldOffset(T, n), s) }

----------------------------------------------------------------------------
(* What a generated wrapper reads from its return area *)

\* (T)(*((intN_t*)(ptr + off))): a w-byte load converted to as bytes
RdLoad(off, w, as) == [k |-> "load", off |-> off, w |-> w, as |-> as]
\* a w-byte load stored into a C bool
RdBool(off, w) == [k |-> "bool", off |-> off, w |-> w]
\* (T){ (P*)(*((int32_t*)(ptr + p))), (size_t)(*((int32_t*)(ptr + l))) }
RdPair(p, l) == [k |-> "pair", ptr |-> p, len |-> l]
\* a compound literal of several fields
RdRec(fs) == [k |-> "rec", fields |-> fs]
\* a case that reads nothing
RdNone == [k |-> "none"]
\* switch over a discriminant loaded as w bytes at off and narrowed to
\* uint8_t, with one arm per declared case and no default arm.
\*   style "tag":    the discriminant is stored in .tag before the switch
\*   style "flag":   each arm sets is_err / is_some itself
\*   style "flag32": as "flag", switching on an int32_t without narrowing
RdSwitch(off, w, style, cs) ==
    [k |-> "switch", off |-> off, w |-> w, style |-> style, cases |-> cs]

\* The error switch with each string read one word further on.
RdError_shifted(off, n, strs, s) ==
    RdSwitch(off, 1, "tag",
             [c \in 1..n |-> IF (c - 1) \in strs THEN RdPair(s + 4, s + 8)
                                                 ELSE RdNone])

\* The switch over an error variant whose cases in strs carry a string at
\* (s, s + 4) and whose other cases carry nothing.
RdError(off, n, strs, s) ==
    RdSwitch(off, 1, "tag",
             [c \in 1..n |-> IF (c - 1) \in strs THEN RdPair(s, s + 4)
                                                 ELSE RdNone])

\* What an uninitialised object turns out to hold: flag for a bool or a
\* discriminant, word for the bytes of anything else.
GarbageWords == { <<0, 0, 0, 0, 0, 0, 0, 0>>,
                  <<239, 190, 173, 222, 239, 190, 173, 222>> }
Oracles == [flag : {0, 1}, word : GarbageWords]

\* width in bytes of the C object an arm of kind "load" / "bool" fills
RECURSIVE Garbage(_, _)
Garbage(rd, u) ==
    CASE rd.k = "load"   -> Resize(u.word, rd.as)
      [] rd.k = "bool"   -> <<u.flag>>
      [] rd.k = "pair"   -> [ptr |-> Resize(u.word, 4), len |-> Resize(u.word, 4)]
      [] rd.k = "none"   -> <<>>
      [] rd.k = "rec"    -> [i \in DOMAIN rd.fields |-> Garbage(rd.fields[i], u)]
      [] rd.k = "switch" ->
            [tag |-> u.flag, val |-> Garbage(rd.cases[u.flag + 1], u)]

\* The discriminant a switch sees: the loaded value narrowed to uint8_t,
\* except in style "flag32", where the switch is on the int32_t itself.
SwitchTag(a, rd) ==
    LET b == Load(a, rd.off, rd.w) IN
    IF rd.style = "flag32"
    THEN b[1] + 256 * b[2] + (IF b[3] # 0 \/ b[4] # 0 THEN 65536 ELSE 0)
    ELSE ByteVal(Resize(b, 1))

\* The value the wrapper code builds from area a; u decides what the
\* objects it leaves uninitialised hold.
RECURSIVE Lift(_, _, _)
Lift(a, rd, u) ==
    CASE rd.k = "load"   -> Resize(Load(a, rd.off, rd.w), rd.as)
      [] rd.k = "bool"   -> ToBool(Load(a, rd.off, rd.w))
      [] rd.k = "pair"   -> [ptr |-> Load(a, rd.ptr, 4), len |-> Load(a, rd.len, 4)]
      [] rd.k = "none"   -> <<>>
      [] rd.k = "rec"    -> [i \in DOMAIN rd.fields |-> Lift(a, rd.fields[i], u)]
      [] rd.k = "switch" ->
            LET t == SwitchTag(a, rd) IN
            IF t + 1 \in DOMAIN rd.cases
            THEN [tag |-> t, val |-> Lift(a, rd.cases[t + 1], u)]
            ELSE IF rd.style = "tag"
                 THEN [tag |-> t, val |-> <<>>]
                 ELSE Garbage(rd, u)

\* The (offset, width) of every load the wrapper code performs on area a.
RECURSIVE Accesses(_, _)
Accesses(a, rd) ==
    CASE rd.k \in {"load", "bool"} -> { <<rd.off, rd.w>> }
      [] rd.k = "pair"   -> { <<rd.ptr, 4>>, <<rd.len, 4>> }
      [] rd.k = "none"   -> {}
      [] rd.k = "rec"    -> UNION { Accesses(a, rd.fields[i]) : i \in DOMAIN rd.fields }
      [] rd.k = "switch" ->
            LET t == SwitchTag(a, rd) IN
            { <<rd.off, rd.w>> }
            \cup (IF t + 1 \in DOMAIN rd.cases
                  THEN Accesses(a, rd.cases[t + 1]) ELSE {})

----------------------------------------------------------------------------
(* Interface types of the bindings *)

\* key-value error: five cases without payload, io(string)
key_value_error_t == Variant(<<Unit, Unit, Unit, Unit, Unit, Pair>>)
\* pg-error: success, then five cases carrying a string
outbound_pg_pg_error_t == Variant(<<Unit, Pair, Pair, Pair, Pair, Pair>>)
\* mysql-error: success, then five cases carrying a string
outbound_mysql_mysql_error_t == Variant(<<Unit, Pair, Pair, Pair, Pair, Pair>>)
\* sqlite error: four cases without payload, io(string)
sqlite_error_t == Variant(<<Unit, Unit, Unit, Unit, Pair>>)
\* llm error: model-not-supported, runtime-error(string), invalid-input(string)
llm_error_t == Variant(<<Unit, Pair, Pair>>)
\* spin-config error: four cases, each carrying a string
spin_config_error_t == Variant(<<Pair, Pair, Pair, Pair>>)
\* redis error: success, error
outbound_redis_error_t == Enum(2)
\* http-error: six enumerators
wasi_outbound_http_http_error_t == Enum(6)
\* response: status, option<headers>, option<body>
wasi_outbound_http_response_t == Record(<<U16, Option(Pair), Option(Pair)>>)
\* the response record of the spin-http export
spin_http_response_t == Record(<<U16, Option(Pair), Option(Pair)>>)
\* llm inferencing-result: text, usage{prompt, generated}
llm_inferencing_result_t == Record(<<Pair, Record(<<U32, U32>>)>>)
\* llm embeddings-result: embeddings, usage{prompt}
llm_embeddings_result_t == Record(<<Pair, Record(<<U32>>)>>)
\* a pg / mysql row-set: columns, rows
RowSet == Record(<<Pair, Pair>>)

----------------------------------------------------------------------------
(* Import wrappers *)

\* Fields of a wrapper:
\*   name, file  the C function and its binding file
\*   abi         "new": fields at their canonical offsets, u8 discriminants
\*               "old": one 8-byte slot per flattened scalar, i32 discriminants
\*   style       how the decoded result leaves the wrapper
\*               "expected": *ret0 = expected;
\*               "okmember": *ret0 = expected.val.ok;
\*                           return expected.is_err ? expected.val.err : -1;
\*               "errcode":  return expected.is_err ? expected.val.err : -1;
\*   ty          the interface type of the result
\*   rd          the loads the wrapper performs on RET_AREA
Wrapper(name, file, abi, style, ty, rd) ==
    [name |-> name, file |-> file, abi |-> abi, style |-> style,
     ty |-> ty, rd |-> rd]

\* switch ((int32_t) (*((uint8_t*) (ptr + 0)))) { case 0: ok  case 1: err }
RdExpected(ok, err) == RdSwitch(0, 1, "flag", <<ok, err>>)

key_value_open ==
    Wrapper("key_value_open", "go/key-value/key-value.c", "new", "expected",
            Result(U32, key_value_error_t),
            RdExpected(RdLoad(4, 4, 4), RdError(4, 6, {5}, 8)))

key_value_get ==
    Wrapper("key_value_get", "go/key-value/key-value.c", "new", "expected",
            Result(Pair, key_value_error_t),
            RdExpected(RdPair(4, 8), RdError(4, 6, {5}, 8)))

key_value_set ==
    Wrapper("key_value_set", "go/key-value/key-value.c", "new", "expected",
            Result(Unit, key_value_error_t),
            RdExpected(RdNone, RdError(4, 6, {5}, 8)))

key_value_delete ==
    Wrapper("key_value_delete", "go/key-value/key-value.c", "new", "expected",
            Result(Unit, key_value_error_t),
            RdExpected(RdNone, RdError(4, 6, {5}, 8)))

key_value_exists ==
    Wrapper("key_value_exists", "go/key-value/key-value.c", "new", "expected",
            Result(Bool, key_value_error_t),
            RdExpected(RdBool(4, 1), RdError(4, 6, {5}, 8)))

key_value_get_keys ==
    Wrapper("key_value_get_keys", "go/key-value/key-value.c", "new",
            "expected", Result(Pair, key_value_error_t),
            RdExpected(RdPair(4, 8), RdError(4, 6, {5}, 8)))

outbound_pg_query ==
    Wrapper("outbound_pg_query", "go/pg/outbound-pg.c", "new", "expected",
            Result(RowSet, outbound_pg_pg_error_t),
            RdExpected(RdRec(<<RdPair(4, 8), RdPair(12, 16)>>),
                       RdError(4, 6, 1..5, 8)))

\* outbound_pg_execute reading the error where outbound_mysql_execute does:
\* discriminant at 4, string at (8, 12).
outbound_pg_execute_at4 ==
    Wrapper("outbound_pg_execute", "go/pg/outbound-pg.c", "new", "expected",
            Result(U64, outbound_pg_pg_error_t),
            RdExpected(RdLoad(8, 8, 8), RdError(4, 6, 1..5, 8)))

outbound_pg_execute ==
    Wrapper("outbound_pg_execute", "go/pg/outbound-pg.c", "new", "expected",
            Result(U64, outbound_pg_pg_error_t),
            RdExpected(RdLoad(8, 8, 8), RdError(8, 6, 1..5, 12)))

outbound_mysql_query ==
    Wrapper("outbound_mysql_query", "go/mysql/outbound-mysql.c", "new",
            "expected", Result(RowSet, outbound_mysql_mysql_error_t),
            RdExpected(RdRec(<<RdPair(4, 8), RdPair(12, 16)>>),
                       RdError(4, 6, 1..5, 8)))

outbound_mysql_execute ==
    Wrapper("outbound_mysql_execute", "go/mysql/outbound-mysql.c", "new",
            "expected", Result(Unit, outbound_mysql_mysql_error_t),
            RdExpected(RdNone, RdError(4, 6, 1..5, 8)))

sqlite_open ==
    Wrapper("sqlite_open", "go/sqlite/sqlite.c", "new", "expected",
            Result(U32, sqlite_error_t),
            RdExpected(RdLoad(4, 4, 4), RdError(4, 5, {4}, 8)))

\* sqlite_execute reading the rows where the columns are and conversely
sqlite_execute_rows_first ==
    Wrapper("sqlite_execute", "go/sqlite/sqlite.c", "new", "expected",
            Result(RowSet, sqlite_error_t),
            RdExpected(RdRec(<<RdPair(12, 16), RdPair(4, 8)>>),
                       RdError(4, 5, {4}, 8)))

sqlite_execute ==
    Wrapper("sqlite_execute", "go/sqlite/sqlite.c", "new", "expected",
            Result(RowSet, sqlite_error_t),
            RdExpected(RdRec(<<RdPair(4, 8), RdPair(12, 16)>>),
                       RdError(4, 5, {4}, 8)))

llm_infer ==
    Wrapper("llm_infer", "go/llm/llm.c", "new", "expected",
            Result(llm_inferencing_result_t, llm_error_t),
            RdExpected(RdRec(<<RdPair(4, 8),
                               RdRec(<<RdLoad(12, 4, 4), RdLoad(16, 4, 4)>>)>>),
                       RdError(4, 3, {1, 2}, 8)))

llm_generate_embeddings ==
    Wrapper("llm_generate_embeddings", "go/llm/llm.c", "new", "expected",
            Result(llm_embeddings_result_t, llm_error_t),
            RdExpected(RdRec(<<RdPair(4, 8), RdRec(<<RdLoad(12, 4, 4)>>)>>),
                       RdError(4, 3, {1, 2}, 8)))

spin_config_get_config ==
    Wrapper("spin_config_get_config", "go/config/spin-config.c", "new",
            "expected", Result(Pair, spin_config_error_t),
            RdExpected(RdPair(4, 8), RdError(4, 4, 0..3, 8)))

\* -- go/redis/outbound-redis.c: the error is a plain enumerator byte --

outbound_redis_publish ==
    Wrapper("outbound_redis_publish", "go/redis/outbound-redis.c", "new",
            "errcode", Result(Unit, outbound_redis_error_t),
            RdExpected(RdNone, RdLoad(1, 1, 1)))

outbound_redis_get ==
    Wrapper("outbound_redis_get", "go/redis/outbound-redis.c", "new",
            "okmember", Result(Pair, outbound_redis_error_t),
            RdExpected(RdPair(4, 8), RdLoad(4, 1, 1)))

outbound_redis_set ==
    Wrapper("outbound_redis_set", "go/redis/outbound-redis.c", "new",
            "errcode", Result(Unit, outbound_redis_error_t),
            RdExpected(RdNone, RdLoad(1, 1, 1)))

\* outbound_redis_incr reading the error byte where a 4-aligned payload
\* would put it
outbound_redis_incr_err_at4 ==
    Wrapper("outbound_redis_incr", "go/redis/outbound-redis.c", "new",
            "okmember", Result(U64, outbound_redis_error_t),
            RdExpected(RdLoad(8, 8, 8), RdLoad(4, 1, 1)))

outbound_redis_incr ==
    Wrapper("outbound_redis_incr", "go/redis/outbound-redis.c", "new",
            "okmember", Result(U64, outbound_redis_error_t),
            RdExpected(RdLoad(8, 8, 8), RdLoad(8, 1, 1)))

outbound_redis_del ==
    Wrapper("outbound_redis_del", "go/redis/outbound-redis.c", "new",
            "okmember", Result(U64, outbound_redis_error_t),
            RdExpected(RdLoad(8, 8, 8), RdLoad(8, 1, 1)))

outbound_redis_sadd ==
    Wrapper("outbound_redis_sadd", "go/redis/outbound-redis.c", "new",
            "okmember", Result(U64, outbound_redis_error_t),
            RdExpected(RdLoad(8, 8, 8), RdLoad(8, 1, 1)))

outbound_redis_smembers ==
    Wrapper("outbound_redis_smembers", "go/redis/outbound-redis.c", "new",
            "okmember", Result(Pair, outbound_redis_error_t),
            RdExpected(RdPair(4, 8), RdLoad(4, 1, 1)))

outbound_redis_srem ==
    Wrapper("outbound_redis_srem", "go/redis/outbound-redis.c", "new",
            "okmember", Result(U64, outbound_redis_error_t),
            RdExpected(RdLoad(8, 8, 8), RdLoad(8, 1, 1)))

outbound_redis_execute ==
    Wrapper("outbound_redis_execute", "go/redis/outbound-redis.c", "new",
            "okmember", Result(Pair, outbound_redis_error_t),
            RdExpected(RdPair(4, 8), RdLoad(4, 1, 1)))

\* -- go/outbound_redis/outbound-redis.c (older generator) --
\* variant.tag = *((int32_t*) (ptr + 0)); switch ((int32_t) variant.tag)
RdVariant(ok, err) == RdSwitch(0, 4, "tag", <<ok, err>>)

old_outbound_redis_publish ==
    Wrapper("old_outbound_redis_publish",
            "go/outbound_redis/outbound-redis.c", "old", "errcode",
            Result(Unit, outbound_redis_error_t),
            RdVariant(RdNone, RdLoad(8, 4, 1)))

old_outbound_redis_get ==
    Wrapper("old_outbound_redis_get",
            "go/outbound_redis/outbound-redis.c", "old", "okmember",
            Result(Pair, outbound_redis_error_t),
            RdVariant(RdPair(8, 16), RdLoad(8, 4, 1)))

old_outbound_redis_set ==
    Wrapper("old_outbound_redis_set",
            "go/outbound_redis/outbound-redis.c", "old", "errcode",
            Result(Unit, outbound_redis_error_t),
            RdVariant(RdNone, RdLoad(8, 4, 1)))

\* -- go/http/wasi-outbound-http.c (older generator) --
wasi_outbound_http_request ==
    Wrapper("wasi_outbound_http_request", "go/http/wasi-outbound-http.c",
            "old", "okmember",
            Result(wasi_outbound_http_response_t,
                   wasi_outbound_http_http_error_t),
            RdVariant(
                RdRec(<<RdLoad(8, 4, 2),
                        RdSwitch(16, 4, "tag", <<RdNone, RdPair(24, 32)>>),
                        RdSwitch(40, 4, "tag", <<RdNone, RdPair(48, 56)>>)>>),
                RdLoad(8, 4, 1)))

\* -- nim/src/spin/http/private/wit/c/wasi-outbound-http.c --
nim_wasi_outbound_http_request ==
    Wrapper("nim_wasi_outbound_http_request", "nim/wasi-outbound-http.c",
            "new", "okmember",
            Result(wasi_outbound_http_response_t,
                   wasi_outbound_http_http_error_t),
            RdExpected(
                RdRec(<<RdLoad(4, 2, 2),
                        RdSwitch(8, 1, "flag", <<RdNone, RdPair(12, 16)>>),
                        RdSwitch(20, 1, "flag", <<RdNone, RdPair(24, 28)>>)>>),
                RdLoad(4, 1, 1)))

\* Every import wrapper that decodes a RET_AREA.
Imports ==
    << key_value_open, key_value_get, key_value_set, key_value_delete,
       key_value_exists, key_value_get_keys,
       outbound_pg_query, outbound_pg_execute,
       outbound_mysql_query, outbound_mysql_execute,
       sqlite_open, sqlite_execute,
       llm_infer, llm_generate_embeddings,
       spin_config_get_config,
       outbound_redis_publish, outbound_redis_get, outbound_redis_set,
       outbound_redis_incr, outbound_redis_del, outbound_redis_sadd,
       outbound_redis_smembers, outbound_redis_srem, outbound_redis_execute,
       old_outbound_redis_publish, old_outbound_redis_get,
       old_outbound_redis_set,
       wasi_outbound_http_request, nim_wasi_outbound_http_request >>

\* The import wrapper called name.
ImportNamed(name) ==
    Imports[CHOOSE i \in DOMAIN Imports : Imports[i].name = name]

ImportNames == { Imports[i].name : i \in DOMAIN Imports }

----------------------------------------------------------------------------
(* The static return areas *)

\* sizeof(RET_AREA) of each binding file that has one
AreaSize(f) ==
    CASE f = "go/redis/spin-redis.c"              -> 2
      [] f = "go/redis/outbound-redis.c"          -> 16
      [] f = "go/config/spin-config.c"            -> 16
      [] f = "go/pg/outbound-pg.c"                -> 20
      [] f = "go/mysql/outbound-mysql.c"          -> 20
      [] f = "go/sqlite/sqlite.c"                 -> 20
      [] f = "go/llm/llm.c"                       -> 20
      [] f = "go/key-value/key-value.c"           -> 16
      [] f = "go/http/spin-http.c"                -> 7 * 8
      [] f = "go/http/wasi-outbound-http.c"       -> 8 * 8
      [] f = "go/outbound_redis/outbound-redis.c" -> 3 * 8
      [] f = "nim/spin-http.c"                    -> 28
      [] f = "nim/wasi-outbound-http.c"           -> 32

\* binding files that declare a RET_AREA (zig/src/spin-config.c has none),
\* in the order the linker is taken to place them
AreaOrder ==
    << "go/redis/spin-redis.c", "go/redis/outbound-redis.c",
       "go/config/spin-config.c", "go/pg/outbound-pg.c",
       "go/mysql/outbound-mysql.c", "go/sqlite/sqlite.c", "go/llm/llm.c",
       "go/key-value/key-value.c", "go/http/spin-http.c",
       "go/http/wasi-outbound-http.c", "go/outbound_redis/outbound-redis.c",
       "nim/spin-http.c", "nim/wasi-outbound-http.c" >>

AreaFiles == { AreaOrder[i] : i \in DOMAIN AreaOrder }

\* (int32_t) &RET_AREA of file f: the areas are distinct static objects,
\* here 256 bytes apart
AreaBase(f) ==
    <<0, CHOOSE i \in DOMAIN AreaOrder : AreaOrder[i] = f, 0, 0>>

\* static storage is zero-initialised
ZeroArea(f) == [i \in 0..(AreaSize(f) - 1) |-> 0]

\* the directory of binding file f: the bindings one component links
Dir(f) ==
    CASE f \in {"go/redis/spin-redis.c", "go/redis/outbound-redis.c"} -> "go/redis"
      [] f \in {"go/http/spin-http.c", "go/http/wasi-outbound-http.c"} -> "go/http"
      [] f \in {"nim/spin-http.c", "nim/wasi-outbound-http.c"} -> "nim"
      [] OTHER -> f

----------------------------------------------------------------------------
(* The host side of the older generator: one 8-byte slot per scalar *)

RECURSIVE FlatLen(_)
RECURSIVE FlatLenFields(_, _)
\* number of flattened scalars of type T
FlatLen(T) ==
    CASE T.k \in {"prim", "bool", "enum"} -> 1
      [] T.k = "unit"    -> 0
      [] T.k = "pair"    -> 2
      [] T.k = "record"  -> FlatLenFields(T, Len(T.fields))
      [] T.k = "variant" ->
            1 + Max({0} \cup { FlatLen(T.cases[i]) : i \in DOMAIN T.cases })

FlatLenFields(T, n) ==
    IF n = 0 THEN 0 ELSE FlatLenFields(T, n - 1) + FlatLen(T.fields[n])

\* a discriminant as an i32 word
TagWord(t) == <<t % 256, (t \div 256) % 256, 0, 0>>

RECURSIVE Flatten(_, _)
RECURSIVE FlattenFields(_, _, _)
\* the scalars of v, each an i32 (or i64) word; <<>> stands for a scalar of
\* an inactive case, which the host does not write
Flatten(T, v) ==
    CASE T.k \in {"prim", "bool", "enum"} ->
            << Resize(v, IF Len(v) > 4 THEN 8 ELSE 4) >>
      [] T.k = "unit"    -> <<>>
      [] T.k = "pair"    -> <<v.ptr, v.len>>
      [] T.k = "record"  -> FlattenFields(T, v, Len(T.fields))
      [] T.k = "variant" ->
            LET body == IF v.tag + 1 \in DOMAIN T.cases
                        THEN Flatten(T.cases[v.tag + 1], v.val) ELSE <<>>
            IN <<TagWord(v.tag)>> \o body
               \o [i \in 1..(FlatLen(T) - 1 - Len(body)) |-> <<>>]

FlattenFields(T, v, n) ==
    IF n = 0 THEN <<>>
    ELSE FlattenFields(T, v, n - 1) \o Flatten(T.fields[n], v[n])

RECURSIVE StoreSlots(_, _, _)
\* the first n words of ws stored at offsets 0, 8, 16, ...
StoreSlots(a, ws, n) ==
    IF n = 0 THEN a
    ELSE Store(StoreSlots(a, ws, n - 1), 8 * (n - 1), ws[n])

\* The host's encoder for a binding of the older generator.
OldLower(a, T, v) == LET ws == Flatten(T, v) IN StoreSlots(a, ws, Len(ws))

\* Discriminant words a misbehaving host may write that are out of range
\* as 32-bit values but not after narrowing to 8 bits.
WideTags == {256, 257}

\* The results the host may produce for wrapper w during call s.
HostVals(w, s) ==
    Vals(w.ty, 0, s)
    \cup (IF w.abi = "old"
          THEN { [tag |-> t, val |-> <<>>] : t \in WideTags } ELSE {})

\* The area after the host has written result v of wrapper w into it.
HostWrite(w, a, v) ==
    IF w.abi = "old" THEN OldLower(a, w.ty, v) ELSE Lower(a, 0, w.ty, v)

----------------------------------------------------------------------------
(* How a decoded result leaves an import wrapper *)

\* the loads of the ok arm and of the err arm of wrapper w
OkRd(w) == w.rd.cases[1]
ErrRd(w) == w.rd.cases[2]

\* Reading union member rd when the bytes b of another member were the last
\* ones stored: the leading bytes are b, the others are what x holds.
RECURSIVE Alias(_, _, _)
Alias(rd, x, b) ==
    CASE rd.k = "load" -> [j \in 1..rd.as |-> IF j <= Len(b) THEN b[j] ELSE x[j]]
      [] rd.k = "pair" ->
            [x EXCEPT !.ptr = [j \in 1..4 |-> IF j <= Len(b) THEN b[j] ELSE @[j]]]
      [] rd.k = "rec"  -> [x EXCEPT ![1] = Alias(rd.fields[1], @, b)]
      [] OTHER         -> x

\* What wrapper w hands to its caller when the area holds a:
\*   ret0      the object stored through ret0 (<<>> when there is none)
\*   retval    the returned error code (<<>> for a void wrapper)
\*   okRead    expected.val.ok was read after the switch
\*   errRead   expected.val.err was read after the switch
\*   isErr     the decoded discriminant
Deliver(w, a, u) ==
    LET x == Lift(a, w.rd, u)
        ok == IF x.tag = 0 THEN x.val
              ELSE IF x.tag = 1
                   THEN Alias(OkRd(w), Garbage(OkRd(w), u), x.val)
                   ELSE Garbage(OkRd(w), u)
        err == IF x.tag = 1 THEN x.val ELSE Garbage(ErrRd(w), u)
        code == IF x.tag # 0 THEN err ELSE <<255>>
    IN CASE w.style = "expected" ->
              [ret0 |-> x, retval |-> <<>>, okRead |-> FALSE,
               errRead |-> FALSE, isErr |-> x.tag # 0]
         [] w.style = "okmember" ->
              [ret0 |-> ok, retval |-> code, okRead |-> TRUE,
               errRead |-> x.tag # 0, isErr |-> x.tag # 0]
         [] w.style = "errcode" ->
              [ret0 |-> <<>>, retval |-> code, okRead |-> FALSE,
               errRead |-> x.tag # 0, isErr |-> x.tag # 0]

NoTrace ==
    [kind |-> "none", accesses |-> {}, okRead |-> FALSE, errRead |-> FALSE,
     isErr |-> FALSE, relayed |-> FALSE]

----------------------------------------------------------------------------
(* Export wrappers *)

\* The flattened arguments of an export are modelled as consecutive 4-byte
\* words: arg at 0, arg0 at 4, ..., arg8 at 36.

Word0 == <<0, 0, 0, 0>>
Word1 == <<1, 0, 0, 0>>

\* spin_http_request_t arg9 of go/http/spin-http.c
go_request_rd ==
    RdRec(<<RdLoad(0, 4, 1), RdPair(4, 8), RdPair(12, 16), RdPair(20, 24),
            RdSwitch(28, 4, "tag", <<RdNone, RdPair(32, 36)>>)>>)

\* spin_http_request_t arg9 of the nim spin-http.c
nim_request_rd ==
    RdRec(<<RdLoad(0, 4, 1), RdPair(4, 8), RdPair(12, 16), RdPair(20, 24),
            RdSwitch(28, 4, "flag32", <<RdNone, RdPair(32, 36)>>)>>)

\* spin_redis_payload_t arg1 of go/redis/spin-redis.c
redis_payload_rd == RdPair(0, 4)

\* The go stores with the headers pointer and length exchanged.
go_response_writes_exchanged(ret) ==
    LET h == ret[2]
        b == ret[3]
    IN << <<48, IF b.tag = 0 THEN Word0 ELSE b.val.len>>,
          <<40, IF b.tag = 0 THEN Word0 ELSE b.val.ptr>>,
          <<32, IF b.tag = 0 THEN Word0 ELSE Word1>>,
          <<24, IF h.tag = 0 THEN Word0 ELSE h.val.ptr>>,
          <<16, IF h.tag = 0 THEN Word0 ELSE h.val.len>>,
          <<8, IF h.tag = 0 THEN Word0 ELSE Word1>>,
          <<0, Resize(ret[1], 4)>> >>

\* The go stores in consecutive 4-byte words instead of 8-byte slots.
go_response_writes_words(ret) ==
    LET h == ret[2]
        b == ret[3]
    IN << <<24, IF b.tag = 0 THEN Word0 ELSE b.val.len>>,
          <<20, IF b.tag = 0 THEN Word0 ELSE b.val.ptr>>,
          <<16, IF b.tag = 0 THEN Word0 ELSE Word1>>,
          <<12, IF h.tag = 0 THEN Word0 ELSE h.val.len>>,
          <<8, IF h.tag = 0 THEN Word0 ELSE h.val.ptr>>,
          <<4, IF h.tag = 0 THEN Word0 ELSE Word1>>,
          <<0, Resize(ret[1], 4)>> >>

\* The stores of the go handle-http-request wrapper for handler result ret,
\* in program order, each <<offset, bytes>>.
go_response_writes(ret) ==
    LET h == ret[2]
        b == ret[3]
        variant11 == IF h.tag = 0 THEN Word0 ELSE Word1
        variant12 == IF h.tag = 0 THEN Word0 ELSE h.val.ptr
        variant13 == IF h.tag = 0 THEN Word0 ELSE h.val.len
        variant16 == IF b.tag = 0 THEN Word0 ELSE Word1
        variant17 == IF b.tag = 0 THEN Word0 ELSE b.val.ptr
        variant18 == IF b.tag = 0 THEN Word0 ELSE b.val.len
    IN << <<48, variant18>>, <<40, variant17>>, <<32, variant16>>,
          <<24, variant13>>, <<16, variant12>>, <<8, variant11>>,
          <<0, Resize(ret[1], 4)>> >>

\* The nim stores with the body written where the older generator puts it
\* relative to the headers (discriminant at 12, pointer at 16, length 20).
nim_response_writes_packed(ret) ==
    LET h == ret[2]
        b == ret[3]
    IN << <<0, Resize(Resize(ret[1], 4), 2)>> >>
       \o (IF h.tag # 0
           THEN << <<4, <<1>>>>, <<12, h.val.len>>, <<8, h.val.ptr>> >>
           ELSE << <<4, <<0>>>> >>)
       \o (IF b.tag # 0
           THEN << <<12, <<1>>>>, <<20, b.val.len>>, <<16, b.val.ptr>> >>
           ELSE << <<12, <<0>>>> >>)

\* The nim stores without the else branches that clear the discriminants.
nim_response_writes_no_clear(ret) ==
    LET h == ret[2]
        b == ret[3]
    IN << <<0, Resize(Resize(ret[1], 4), 2)>> >>
       \o (IF h.tag # 0
           THEN << <<4, <<1>>>>, <<12, h.val.len>>, <<8, h.val.ptr>> >>
           ELSE << >>)
       \o (IF b.tag # 0
           THEN << <<16, <<1>>>>, <<24, b.val.len>>, <<20, b.val.ptr>> >>
           ELSE << >>)

\* The stores of the nim handle-http-request wrapper for handler result ret.
nim_response_writes(ret) ==
    LET h == ret[2]
        b == ret[3]
    IN << <<0, Resize(Resize(ret[1], 4), 2)>> >>
       \o (IF h.tag # 0
           THEN << <<4, <<1>>>>, <<12, h.val.len>>, <<8, h.val.ptr>> >>
           ELSE << <<4, <<0>>>> >>)
       \o (IF b.tag # 0
           THEN << <<16, <<1>>>>, <<24, b.val.len>>, <<20, b.val.ptr>> >>
           ELSE << <<16, <<0>>>> >>)

\* The stores of the handle-redis-message wrapper for handler result ret
\* (a spin_redis_error_t byte).
redis_result_writes(ret) ==
    LET is_err == ret[1] <= 2 IN
    IF is_err THEN << <<0, <<1>>>>, <<1, Resize(Resize(ret, 4), 1)>> >>
              ELSE << <<0, <<0>>>> >>

\* Fields of an export: name, file, abi, the interface type ty of the
\* result, the lift argRd of its arguments and the number argBytes of
\* argument bytes.
export_spin_http_handle_http_request ==
    [name |-> "export_spin_http_handle_http_request",
     file |-> "go/http/spin-http.c", abi |-> "old",
     ty |-> spin_http_response_t, argRd |-> go_request_rd, argBytes |-> 40]

nim_export_spin_http_handle_http_request ==
    [name |-> "nim_export_spin_http_handle_http_request",
     file |-> "nim/spin-http.c", abi |-> "new",
     ty |-> spin_http_response_t, argRd |-> nim_request_rd, argBytes |-> 40]

export_spin_redis_handle_redis_message ==
    [name |-> "export_spin_redis_handle_redis_message",
     file |-> "go/redis/spin-redis.c", abi |-> "new",
     ty |-> Result(Unit, outbound_redis_error_t),
     argRd |-> redis_payload_rd, argBytes |-> 8]

Exports ==
    << export_spin_http_handle_http_request,
       nim_export_spin_http_handle_http_request,
       export_spin_redis_handle_redis_message >>

ExportNamed(name) ==
    Exports[CHOOSE i \in DOMAIN Exports : Exports[i].name = name]

ExportNames == { Exports[i].name : i \in DOMAIN Exports }

\* The stores export e performs for handler result ret.
ExportWrites(e, ret) ==
    CASE e.name = "export_spin_http_handle_http_request" ->
            go_response_writes(ret)
      [] e.name = "nim_export_spin_http_handle_http_request" ->
            nim_response_writes(ret)
      [] e.name = "export_spin_redis_handle_redis_message" ->
            redis_result_writes(ret)

RECURSIVE ApplyWrites(_, _, _)
\* area a after the first n stores of ws
ApplyWrites(a, ws, n) ==
    IF n = 0 THEN a
    ELSE Store(ApplyWrites(a, ws, n - 1), ws[n][1], ws[n][2])

\* Argument words the host passes to export e during call s: recognisable
\* words, with the discriminant of the http body option 0 or 1.
ExportArgs(e, s) ==
    { [i \in 0..(e.argBytes - 1) |->
          IF e.argBytes = 40 /\ i \div 4 = 7
          THEN (IF i = 28 THEN t ELSE 0)
          ELSE Pattern(4 * (i \div 4), 4, s)[(i % 4) + 1]] : t \in {0, 1} }

\* Results the user handler of export e may produce during call s.
HandlerResults(e, s) ==
    IF e.name = "export_spin_redis_handle_redis_message"
    THEN { <<r>> : r \in {0, 1, 2, 3, 255} }
    ELSE { <<st, h, b>> :
             st \in { <<200, 0>>, Pattern(0, 2, s) },
             h \in { [tag |-> 0, val |-> <<>>],
                     [tag |-> 1, val |-> [ptr |-> Pattern(8, 4, s),
                                          len |-> <<1, 0, 0, 0>>]] },
             b \in { [tag |-> 0, val |-> <<>>],
                     [tag |-> 1, val |-> [ptr |-> Pattern(20, 4, s),
                                          len |-> <<6, 0, 0, 0>>]] } }

----------------------------------------------------------------------------
(* Lowering of import arguments *)

\* Arguments are values as the caller holds them: a scalar is its bytes, a
\* string or list the [ptr, len] of the caller's buffer, an option
\* [tag, val].  A lowering yields the int32_t scalars handed to the host
\* import, in order, without the trailing return-area pointer.

\* key_value_set(store, key, value, ret0)
key_value_set_lower_exchanged(x) ==
    << Resize(x[1], 4), x[2].len, x[2].ptr, x[3].ptr, x[3].len >>

key_value_set_lower(x) ==
    << Resize(x[1], 4), x[2].ptr, x[2].len, x[3].ptr, x[3].len >>

\* wasi_outbound_http_request(req, ret0) of go/http/wasi-outbound-http.c:
\* a switch copies the method, a switch on the body's tag fills variant8,
\* variant9, variant10; neither has a default arm.
go_request_lower(req, u) ==
    LET variant == IF req[1][1] \in 0..6 THEN Resize(req[1], 4)
                   ELSE Resize(u.word, 4)
        body == req[5]
        variant8 == CASE body.tag = 0 -> Word0
                      [] body.tag = 1 -> Word1
                      [] OTHER -> Resize(u.word, 4)
        variant9 == CASE body.tag = 0 -> Word0
                      [] body.tag = 1 -> body.val.ptr
                      [] OTHER -> Resize(u.word, 4)
        variant10 == CASE body.tag = 0 -> Word0
                       [] body.tag = 1 -> body.val.len
                       [] OTHER -> Resize(u.word, 4)
    IN << variant, req[2].ptr, req[2].len, req[3].ptr, req[3].len,
          req[4].ptr, req[4].len, variant8, variant9, variant10 >>

\* the nim lowering with the body's pointer and length passed in the
\* opposite order
nim_request_lower_exchanged(req) ==
    LET is_some == req[5].tag # 0
        option == IF is_some THEN Word1 ELSE Word0
        option1 == IF is_some THEN req[5].val.len ELSE Word0
        option2 == IF is_some THEN req[5].val.ptr ELSE Word0
    IN << Resize(req[1], 4), req[2].ptr, req[2].len, req[3].ptr, req[3].len,
          req[4].ptr, req[4].len, option, option1, option2 >>

\* wasi_outbound_http_request(req, ret0) of the nim wasi-outbound-http.c:
\* the method is cast, the body is tested with is_some.
nim_request_lower(req) ==
    LET is_some == req[5].tag # 0
        option == IF is_some THEN Word1 ELSE Word0
        option1 == IF is_some THEN req[5].val.ptr ELSE Word0
        option2 == IF is_some THEN req[5].val.len ELSE Word0
    IN << Resize(req[1], 4), req[2].ptr, req[2].len, req[3].ptr, req[3].len,
          req[4].ptr, req[4].len, option, option1, option2 >>

\* an llm_infer whose else branch assigns the discriminant only
llm_infer_lower_tag_only(x, u) ==
    LET is_some == x[3].tag # 0
        payload0 == x[3].val
        rest == IF is_some THEN [i \in 1..6 |-> payload0[i]]
                ELSE [i \in 1..6 |-> Resize(u.word, 4)]
    IN << x[1].ptr, x[1].len, x[2].ptr, x[2].len,
          IF is_some THEN Word1 ELSE Word0 >> \o rest

\* llm_infer(model, prompt, params, ret0) of go/llm/llm.c: option ..
\* option6 are declared without initialiser (u is what they hold then) and
\* assigned in both branches of if ((*params).is_some).  The three floats
\* are passed as their 4 bytes.
llm_infer_lower(x, u) ==
    LET is_some == x[3].tag # 0
        payload0 == x[3].val
        option == IF is_some THEN Word1 ELSE Word0
        option1 == IF is_some THEN payload0[1] ELSE Word0
        option2 == IF is_some THEN payload0[2] ELSE Word0
        option3 == IF is_some THEN payload0[3] ELSE Word0
        option4 == IF is_some THEN payload0[4] ELSE Word0
        option5 == IF is_some THEN payload0[5] ELSE Word0
        option6 == IF is_some THEN payload0[6] ELSE Word0
    IN << x[1].ptr, x[1].len, x[2].ptr, x[2].len,
          option, option1, option2, option3, option4, option5, option6 >>

\* The arguments a caller passes to wrapper w in call s (<<>> for the
\* wrappers whose lowering is not modelled).
ImportArgs(w, s) ==
    CASE w.name = "key_value_set" ->
            { << Pattern(0, 4, s),
                 [ptr |-> Pattern(4, 4, s), len |-> Pattern(8, 4, s)],
                 [ptr |-> Pattern(12, 4, s), len |-> Pattern(16, 4, s)] >> }
      [] w.name \in {"wasi_outbound_http_request",
                     "nim_wasi_outbound_http_request"} ->
            { << <<m>>,
                 [ptr |-> Pattern(4, 4, s), len |-> Pattern(8, 4, s)],
                 [ptr |-> Pattern(12, 4, s), len |-> Pattern(16, 4, s)],
                 [ptr |-> Pattern(20, 4, s), len |-> Pattern(24, 4, s)],
                 b >> :
              m \in {0, 6},
              b \in { [tag |-> 0, val |-> <<>>],
                      [tag |-> 1, val |-> [ptr |-> Pattern(32, 4, s),
                                           len |-> Pattern(36, 4, s)]] } }
      [] w.name = "llm_infer" ->
            { << [ptr |-> Pattern(0, 4, s), len |-> Pattern(4, 4, s)],
                 [ptr |-> Pattern(8, 4, s), len |-> Pattern(12, 4, s)],
                 p >> :
              p \in { [tag |-> 0, val |-> <<>>],
                      [tag |-> 1,
                       val |-> [i \in 1..6 |-> Pattern(16 + 4 * i, 4, s)]] } }
      [] OTHER -> { <<>> }

\* What wrapper w does with arguments x before it calls the host import:
\* the scalars it passes and the canonical_abi_realloc calls it makes (no
\* wrapper makes any).
ImportLower(w, x, u) ==
    [scalars |-> CASE w.name = "key_value_set" -> key_value_set_lower(x)
                   [] w.name = "wasi_outbound_http_request" ->
                         go_request_lower(x, u)
                   [] w.name = "nim_wasi_outbound_http_request" ->
                         nim_request_lower(x)
                   [] w.name = "llm_infer" -> llm_infer_lower(x, u)
                   [] OTHER -> <<>>,
     reallocs |-> <<>>]

\* no result is held from an earlier call
NoKept == [name |-> "", ret0 |-> <<>>, retval |-> <<>>, host |-> <<>>]

NoArgLog ==
    [fn |-> "", args |-> <<>>, scalars |-> <<>>, ptr |-> <<>>,
     reallocs |-> <<>>, heapBefore |-> {}, relayed |-> FALSE]

\* the scalars sc as the flattened argument words of an export
ArgsArea(sc) ==
    [i \in 0..(4 * Len(sc) - 1) |-> sc[(i \div 4) + 1][(i % 4) + 1]]

\* The argument words the host passes to export e when it relays the
\* request of the latest wasi_outbound_http_request of the same component.
RelayedArgs(e) ==
    IF /\ e.argBytes = 40
       /\ argLog.fn \in {"wasi_outbound_http_request",
                         "nim_wasi_outbound_http_request"}
       /\ Dir(ImportNamed(argLog.fn).file) = Dir(e.file)
    THEN { ArgsArea(argLog.scalars) } ELSE {}

----------------------------------------------------------------------------
(* Calls through the return areas *)

\* A component links the bindings of one directory; the binding file whose
\* allocator is linked is one of them.
Focus(f) == Dir(f) = Dir(linked)

\* Guest code calls import wrapper Imports[i]; the wrapper takes the address
\* of RET_AREA and calls the host import.
ImportCall(i) ==
    LET w == Imports[i] IN
    /\ ~aborted
    /\ pc = "idle"
    /\ calls < MaxCalls
    /\ Focus(w.file)
    /\ pc' = "issued"
    /\ cur' = w.name
    /\ calls' = calls + 1
    /\ ret0' = <<>>
    /\ retval' = <<>>
    /\ trace' = NoTrace
    /\ \E x \in ImportArgs(w, calls + 1), u \in Oracles :
          LET l == ImportLower(w, x, u) IN
          argLog' = [fn |-> w.name, args |-> x, scalars |-> l.scalars,
                     ptr |-> AreaBase(w.file), reallocs |-> l.reallocs,
                     heapBefore |-> heap, relayed |-> FALSE]
    /\ UNCHANGED <<retArea, areaState, hostVal, handlerRet>>
    /\ UNCHANGED allocVars
    /\ UNCHANGED <<kept, obj, freeLog>>

\* The caller of an import wrapper keeps the result just delivered (the
\* object its ret0 pointed to and the return value) for use after later
\* calls.
Retain ==
    /\ ~aborted
    /\ pc = "idle"
    /\ trace.kind = "import"
    /\ kept = NoKept
    /\ kept' = [name |-> cur, ret0 |-> ret0, retval |-> retval,
                host |-> hostVal]
    /\ UNCHANGED allocVars
    /\ UNCHANGED codecVars
    /\ UNCHANGED memVars

\* The host import called by Imports[i] writes a result into the area it
\* was given and returns.
HostReturn(i) ==
    /\ pc = "issued"
    /\ cur = Imports[i].name
    /\ \E v \in HostVals(Imports[i], calls) :
          /\ retArea' = [retArea EXCEPT ![Imports[i].file] =
                            HostWrite(Imports[i], @, v)]
          /\ hostVal' = v
    /\ areaState' = [areaState EXCEPT ![Imports[i].file] = "populated"]
    /\ pc' = "populated"
    /\ UNCHANGED <<cur, ret0, retval, trace, handlerRet, calls>>
    /\ UNCHANGED allocVars
    /\ UNCHANGED <<kept, memVars>>

\* The host answers a wasi_outbound_http_request with the response the
\* handle-http-request export of the same component last returned: result
\* tag 0, then the bytes of that export's return area as the ok payload
\* (at offset 4 after a tag byte; at offset 8, the second slot, in the
\* older ABI).
HostRelay ==
    /\ pc = "issued"
    /\ cur \in {"nim_wasi_outbound_http_request", "wasi_outbound_http_request"}
    /\ handlerRet.name \in {"nim_export_spin_http_handle_http_request",
                            "export_spin_http_handle_http_request"}
    /\ LET w == ImportNamed(cur)
           e == ExportNamed(handlerRet.name)
           tag == IF w.abi = "new" THEN <<0>> ELSE Word0
           po == IF w.abi = "new" THEN 4 ELSE 8
       IN /\ Dir(e.file) = Dir(w.file)
          /\ retArea' =
               [retArea EXCEPT ![w.file] =
                  Store(Store(@, 0, tag), po,
                        Load(retArea[e.file], 0, AreaSize(e.file)))]
          /\ areaState' = [areaState EXCEPT ![w.file] = "populated"]
    /\ hostVal' = [tag |-> 0, val |-> handlerRet.val]
    /\ pc' = "relayed"
    /\ UNCHANGED <<cur, ret0, retval, trace, handlerRet, calls>>
    /\ UNCHANGED allocVars
    /\ UNCHANGED <<kept, memVars>>

\* A decode that returns without the area being marked consumed.
ImportDecode_unconsumed(i, u) ==
    /\ pc \in {"populated", "relayed"}
    /\ cur = Imports[i].name
    /\ LET w == Imports[i]
           d == Deliver(w, retArea[w.file], u)
       IN /\ ret0' = d.ret0
          /\ retval' = d.retval
          /\ trace' = [kind |-> "import",
                       accesses |-> Accesses(retArea[w.file], w.rd),
                       okRead |-> d.okRead, errRead |-> d.errRead,
                       isErr |-> d.isErr, relayed |-> (pc = "relayed")]
    /\ pc' = "idle"
    /\ UNCHANGED <<retArea, areaState, cur, hostVal, handlerRet, calls>>
    /\ UNCHANGED allocVars
    /\ UNCHANGED <<kept, memVars>>

\* A decode whose earlier result is a view of the return area: the result
\* the caller kept from the previous call now shows the new decode.
ImportDecode_aliasing(i, u) ==
    /\ pc \in {"populated", "relayed"}
    /\ cur = Imports[i].name
    /\ LET w == Imports[i]
           d == Deliver(w, retArea[w.file], u)
       IN /\ ret0' = d.ret0
          /\ retval' = d.retval
          /\ trace' = [kind |-> "import",
                       accesses |-> Accesses(retArea[w.file], w.rd),
                       okRead |-> d.okRead, errRead |-> d.errRead,
                       isErr |-> d.isErr, relayed |-> (pc = "relayed")]
          /\ areaState' = [areaState EXCEPT ![w.file] = "idle"]
          /\ kept' = IF kept.name = w.name
                     THEN [kept EXCEPT !.ret0 = d.ret0, !.retval = d.retval]
                     ELSE kept
    /\ pc' = "idle"
    /\ UNCHANGED <<retArea, cur, hostVal, handlerRet, calls>>
    /\ UNCHANGED allocVars
    /\ UNCHANGED memVars

\* Wrapper Imports[i] decodes the area, hands the result to its caller and
\* returns.  u is what the objects it left uninitialised hold.
ImportDecode(i, u) ==
    /\ pc \in {"populated", "relayed"}
    /\ cur = Imports[i].name
    /\ LET w == Imports[i]
           d == Deliver(w, retArea[w.file], u)
       IN /\ ret0' = d.ret0
          /\ retval' = d.retval
          /\ trace' = [kind |-> "import",
                       accesses |-> Accesses(retArea[w.file], w.rd),
                       okRead |-> d.okRead, errRead |-> d.errRead,
                       isErr |-> d.isErr, relayed |-> (pc = "relayed")]
          /\ areaState' = [areaState EXCEPT ![w.file] = "idle"]
    /\ pc' = "idle"
    /\ UNCHANGED <<retArea, cur, hostVal, handlerRet, calls>>
    /\ UNCHANGED allocVars
    /\ UNCHANGED <<kept, memVars>>

\* An export entry that zeroes RET_AREA before the handler is called.
ExportEnter_clears_area(j) ==
    LET e == Exports[j] IN
    /\ ~aborted
    /\ pc = "idle"
    /\ calls < MaxCalls
    /\ Focus(e.file)
    /\ \E args \in ExportArgs(e, calls + 1) \cup RelayedArgs(e), u \in Oracles :
          /\ hostVal' = Lift(args, e.argRd, u)
          /\ argLog' = [argLog EXCEPT !.relayed = (args \in RelayedArgs(e))]
    /\ pc' = "handler"
    /\ cur' = e.name
    /\ calls' = calls + 1
    /\ ret0' = <<>>
    /\ retval' = <<>>
    /\ trace' = NoTrace
    /\ retArea' = [retArea EXCEPT ![Exports[j].file] = ZeroArea(Exports[j].file)]
    /\ UNCHANGED <<areaState, handlerRet>>
    /\ UNCHANGED allocVars
    /\ UNCHANGED <<kept, obj, freeLog>>

\* The host calls export Exports[j] with flattened arguments; the wrapper
\* lifts them and calls the user handler.
ExportEnter(j) ==
    LET e == Exports[j] IN
    /\ ~aborted
    /\ pc = "idle"
    /\ calls < MaxCalls
    /\ Focus(e.file)
    /\ \E args \in ExportArgs(e, calls + 1) \cup RelayedArgs(e), u \in Oracles :
          /\ hostVal' = Lift(args, e.argRd, u)
          /\ argLog' = [argLog EXCEPT !.relayed = (args \in RelayedArgs(e))]
    /\ pc' = "handler"
    /\ cur' = e.name
    /\ calls' = calls + 1
    /\ ret0' = <<>>
    /\ retval' = <<>>
    /\ trace' = NoTrace
    /\ UNCHANGED <<retArea, areaState, handlerRet>>
    /\ UNCHANGED allocVars
    /\ UNCHANGED <<kept, obj, freeLog>>

\* The user handler of Exports[j] returns; the wrapper stores the encoding
\* of its result into RET_AREA and returns the area's address.
ExportReturn(j) ==
    /\ pc = "handler"
    /\ cur = Exports[j].name
    /\ \E ret \in HandlerResults(Exports[j], calls) :
          LET e == Exports[j]
              ws == ExportWrites(e, ret)
          IN /\ retArea' = [retArea EXCEPT ![e.file] = ApplyWrites(@, ws, Len(ws))]
             /\ handlerRet' = [name |-> e.name, val |-> ret]
             /\ trace' = [kind |-> "export",
                          accesses |-> { <<ws[n][1], Len(ws[n][2])>> : n \in DOMAIN ws },
                          okRead |-> FALSE, errRead |-> FALSE,
                          isErr |-> FALSE, relayed |-> FALSE]
    /\ retval' = AreaBase(Exports[j].file)
    /\ pc' = "idle"
    /\ UNCHANGED <<areaState, cur, hostVal, ret0, calls>>
    /\ UNCHANGED allocVars
    /\ UNCHANGED <<kept, memVars>>

\* The user handler of the export in progress calls import wrapper
\* Imports[i] of the same component: the wrapper hands the host the address
\* of its own file's RET_AREA, the host writes its result there and the
\* wrapper decodes it into locals of the handler before control is back in
\* the handler.  A handler run makes at most one such call.
HandlerImport(i) ==
    LET w == Imports[i] IN
    /\ ~aborted
    /\ pc = "handler"
    /\ trace.kind = "none"
    /\ Focus(w.file)
    /\ \E v \in HostVals(w, calls) :
          LET a == HostWrite(w, retArea[w.file], v) IN
          /\ retArea' = [retArea EXCEPT ![w.file] = a]
          /\ trace' = [kind |-> "import", accesses |-> Accesses(a, w.rd),
                       okRead |-> FALSE, errRead |-> FALSE,
                       isErr |-> FALSE, relayed |-> FALSE]
    /\ UNCHANGED <<areaState, pc, cur, hostVal, ret0, retval, handlerRet,
                   calls>>
    /\ UNCHANGED allocVars
    /\ UNCHANGED <<kept, memVars>>

----------------------------------------------------------------------------
(* Memory-resident values and the generated free functions *)

\* A value in guest memory.  string, list: [ptr, len, elems] with ptr the
\* address of the backing buffer and elems the len elements it holds;
\* record: the tuple of its fields in declaration order; variant, option,
\* expected: [tag, val]; any other scalar: 0.  Addresses are integers.

\* the element type of a string or list type
ElemType(T) == IF T.k = "list" THEN T.el ELSE U8

\* Every value has fewer than Fanout parts.
Fanout == MaxLen + 6

\* Address of the i-th part (field, element, payload) of the part at a.
Part(a, i) == a * Fanout + i

\* The well-formed value of type T at address a whose strings and lists
\* all have c.len elements and whose variants at nesting depth d hold case
\* c.tags[d + 1] (reduced to a declared case); its buffers are pairwise
\* distinct.
RECURSIVE Build(_, _, _, _)
Build(T, a, c, d) ==
    CASE T.k \in {"list", "pair"} ->
            [ptr |-> a, len |-> c.len,
             elems |-> [i \in 1..c.len |-> Build(ElemType(T), Part(a, i), c, d)]]
      [] T.k = "record"  ->
            [i \in DOMAIN T.fields |-> Build(T.fields[i], Part(a, i), c, d)]
      [] T.k = "variant" ->
            LET t == c.tags[IF d < Len(c.tags) THEN d + 1 ELSE Len(c.tags)]
                       % Len(T.cases)
            IN [tag |-> t, val |-> Build(T.cases[t + 1], Part(a, 1), c, d + 1)]
      [] OTHER           -> 0

\* What a free function does, as the code is written:
\*   FrNone           nothing
\*   string_free      canonical_abi_free(ret->ptr, ret->len, 1);
\*                    ret->ptr = NULL; ret->len = 0;
\*   FrList(el,S,A)   for (i = 0; i < ptr->len; i++) el(&ptr->ptr[i]);
\*                    canonical_abi_free(ptr->ptr, ptr->len * S, A);
\*                    (no loop when el is FrNone)
\*   FrRec(fs)        fs[1][2](&ptr-><field fs[1][1]>); fs[2][2](...); ...
\*   FrSwitch(cs)     switch (ptr->tag) { case t: cs[t](&ptr->val...); }
\*                    (also: if (ptr->is_some), if (!ptr->is_err) ... else)
FrNone == [k |-> "none"]
string_free == [k |-> "string"]
\* a list free function that passes the element count as the size
FrList_unscaled(el, S, A) == [k |-> "list", el |-> el, size |-> 1, align |-> A]
FrList(el, S, A) == [k |-> "list", el |-> el, size |-> S, align |-> A]
FrRec(fs) == [k |-> "record", fields |-> fs]
\* a switch none of whose arms releases anything
FrSwitch_no_arms(cs) == [k |-> "switch", cases |-> <<>>]
FrSwitch(cs) == [k |-> "switch", cases |-> cs]

\* Running free function fd on value v: the canonical_abi_free calls it
\* makes, in order, each <<ptr, size, align>>, and the value afterwards.
\* (len * S is a size_t product; the lengths here are far from wrapping.)
RECURSIVE FreeRun(_, _)
RECURSIVE FreeElems(_, _, _)
RECURSIVE FreeFields(_, _, _)
\* A list free function that releases the backing buffer before it visits
\* the elements.
FreeRun_buffer_first(fd, v) ==
    CASE fd.k = "none"   -> [calls |-> <<>>, val |-> v]
      [] fd.k = "string" ->
            [calls |-> << <<v.ptr, v.len, 1>> >>,
             val |-> [v EXCEPT !.ptr = NULL, !.len = 0]]
      [] fd.k = "list"   ->
            LET r == IF fd.el.k = "none" THEN [calls |-> <<>>, val |-> v]
                     ELSE FreeElems(fd.el, v, v.len)
            IN [calls |-> << <<v.ptr, v.len * fd.size, fd.align>> >> \o r.calls,
                val |-> r.val]
      [] fd.k = "record" -> FreeFields(fd.fields, v, Len(fd.fields))
      [] fd.k = "switch" ->
            IF v.tag \in DOMAIN fd.cases
            THEN LET r == FreeRun(fd.cases[v.tag], v.val) IN
                 [calls |-> r.calls, val |-> [v EXCEPT !.val = r.val]]
            ELSE [calls |-> <<>>, val |-> v]

\* A variant free function with a default arm that hands the allocator a
\* null buffer of size 0 when the active case owns nothing.
FreeRun_default_arm(fd, v) ==
    CASE fd.k = "none"   -> [calls |-> <<>>, val |-> v]
      [] fd.k = "string" ->
            [calls |-> << <<v.ptr, v.len, 1>> >>,
             val |-> [v EXCEPT !.ptr = NULL, !.len = 0]]
      [] fd.k = "list"   ->
            LET r == IF fd.el.k = "none" THEN [calls |-> <<>>, val |-> v]
                     ELSE FreeElems(fd.el, v, v.len)
            IN [calls |-> Append(r.calls, <<v.ptr, v.len * fd.size, fd.align>>),
                val |-> r.val]
      [] fd.k = "record" -> FreeFields(fd.fields, v, Len(fd.fields))
      [] fd.k = "switch" ->
            IF v.tag \in DOMAIN fd.cases
            THEN LET r == FreeRun(fd.cases[v.tag], v.val) IN
                 [calls |-> r.calls, val |-> [v EXCEPT !.val = r.val]]
            ELSE [calls |-> << <<NULL, 0, 1>> >>, val |-> v]

\* A list free function that, like string_free, clears ptr and len after
\* releasing the buffer.
FreeRun_list_cleared(fd, v) ==
    CASE fd.k = "none"   -> [calls |-> <<>>, val |-> v]
      [] fd.k = "string" ->
            [calls |-> << <<v.ptr, v.len, 1>> >>,
             val |-> [v EXCEPT !.ptr = NULL, !.len = 0]]
      [] fd.k = "list"   ->
            LET r == IF fd.el.k = "none" THEN [calls |-> <<>>, val |-> v]
                     ELSE FreeElems(fd.el, v, v.len)
            IN [calls |-> Append(r.calls,
                                 <<v.ptr, v.len * fd.size, fd.align>>),
                val |-> [ptr |-> NULL, len |-> 0, elems |-> <<>>]]
      [] fd.k = "record" -> FreeFields(fd.fields, v, Len(fd.fields))
      [] fd.k = "switch" ->
            IF v.tag \in DOMAIN fd.cases
            THEN LET r == FreeRun(fd.cases[v.tag], v.val) IN
                 [calls |-> r.calls, val |-> [v EXCEPT !.val = r.val]]
            ELSE [calls |-> <<>>, val |-> v]

\* A string_free that leaves ptr and len as they were.
FreeRun_string_kept(fd, v) ==
    CASE fd.k = "none"   -> [calls |-> <<>>, val |-> v]
      [] fd.k = "string" ->
            [calls |-> << <<v.ptr, v.len, 1>> >>, val |-> v]
      [] fd.k = "list"   ->
            LET r == IF fd.el.k = "none" THEN [calls |-> <<>>, val |-> v]
                     ELSE FreeElems(fd.el, v, v.len)
            IN [calls |-> Append(r.calls,
                                 <<v.ptr, v.len * fd.size, fd.align>>),
                val |-> r.val]
      [] fd.k = "record" -> FreeFields(fd.fields, v, Len(fd.fields))
      [] fd.k = "switch" ->
            IF v.tag \in DOMAIN fd.cases
            THEN LET r == FreeRun(fd.cases[v.tag], v.val) IN
                 [calls |-> r.calls, val |-> [v EXCEPT !.val = r.val]]
            ELSE [calls |-> <<>>, val |-> v]

FreeRun(fd, v) ==
    CASE fd.k = "none"   -> [calls |-> <<>>, val |-> v]
      [] fd.k = "string" ->
            [calls |-> << <<v.ptr, v.len, 1>> >>,
             val |-> [v EXCEPT !.ptr = NULL, !.len = 0]]
      [] fd.k = "list"   ->
            LET r == IF fd.el.k = "none" THEN [calls |-> <<>>, val |-> v]
                     ELSE FreeElems(fd.el, v, v.len)
            IN [calls |-> Append(r.calls,
                                 <<v.ptr, v.len * fd.size, fd.align>>),
                val |-> r.val]
      [] fd.k = "record" -> FreeFields(fd.fields, v, Len(fd.fields))
      [] fd.k = "switch" ->
            IF v.tag \in DOMAIN fd.cases
            THEN LET r == FreeRun(fd.cases[v.tag], v.val) IN
                 [calls |-> r.calls, val |-> [v EXCEPT !.val = r.val]]
            ELSE [calls |-> <<>>, val |-> v]

\* an element loop that starts at index 1 and so skips the first element
FreeElems_from_second(el, v, n) ==
    IF n <= 1 THEN [calls |-> <<>>, val |-> v]
    ELSE LET p == FreeElems(el, v, n - 1)
             r == FreeRun(el, p.val.elems[n])
         IN [calls |-> p.calls \o r.calls,
             val |-> [p.val EXCEPT !.elems[n] = r.val]]

\* the first n iterations of the element loop of a list free function
FreeElems(el, v, n) ==
    IF n = 0 THEN [calls |-> <<>>, val |-> v]
    ELSE LET p == FreeElems(el, v, n - 1)
             r == FreeRun(el, p.val.elems[n])
         IN [calls |-> p.calls \o r.calls,
             val |-> [p.val EXCEPT !.elems[n] = r.val]]

\* the first n statements of a record free function
FreeFields(fs, v, n) ==
    IF n = 0 THEN [calls |-> <<>>, val |-> v]
    ELSE LET p == FreeFields(fs, v, n - 1)
             r == FreeRun(fs[n][2], p.val[fs[n][1]])
         IN [calls |-> p.calls \o r.calls,
             val |-> [p.val EXCEPT ![fs[n][1]] = r.val]]

\* A free function: its name, its binding file, the type ty of the value
\* it takes and what it does.
FreeFn(name, file, ty, fd) == [name |-> name, file |-> file, ty |-> ty, fd |-> fd]

\* spin-http.c of the go SDK (f = "go/http/spin-http.c") and of the nim SDK
\* (f = "nim/spin-http.c"); they differ in spin_http_uri_free.
spin_http_free(f) ==
    LET string_t == List(U8)
        tuple2_string_string_t == Record(<<string_t, string_t>>)
        headers_t == List(tuple2_string_string_t)
        option_body_t == Option(List(U8))
        request_t == Record(<<Enum(7), string_t, headers_t, headers_t,
                              option_body_t>>)
        response_t == Record(<<U16, Option(headers_t), option_body_t>>)
        body_free == FrList(FrNone, 1, 1)
        tuple2_string_string_free ==
            FrRec(<< <<1, string_free>>, <<2, string_free>> >>)
        headers_free == FrList(tuple2_string_string_free, 16, 4)
        params_free == FrList(tuple2_string_string_free, 16, 4)
        uri_free == IF f = "go/http/spin-http.c" THEN FrList(FrNone, 1, 1)
                                                 ELSE string_free
        option_body_free == FrSwitch(1 :> body_free)
        request_free == FrRec(<< <<2, uri_free>>, <<3, headers_free>>,
                                 <<4, params_free>>, <<5, option_body_free>> >>)
        option_headers_free == FrSwitch(1 :> headers_free)
        response_free == FrRec(<< <<2, option_headers_free>>,
                                  <<3, option_body_free>> >>)
    IN << FreeFn("spin_http_string_free", f, string_t, string_free),
          FreeFn("spin_http_body_free", f, List(U8), body_free),
          FreeFn("spin_http_tuple2_string_string_free", f,
                 tuple2_string_string_t, tuple2_string_string_free),
          FreeFn("spin_http_headers_free", f, headers_t, headers_free),
          FreeFn("spin_http_params_free", f, headers_t, params_free),
          FreeFn("spin_http_uri_free", f, string_t, uri_free),
          FreeFn("spin_http_option_body_free", f, option_body_t,
                 option_body_free),
          FreeFn("spin_http_request_free", f, request_t, request_free),
          FreeFn("spin_http_option_headers_free", f, Option(headers_t),
                 option_headers_free),
          FreeFn("spin_http_response_free", f, response_t, response_free) >>

\* go/mysql/outbound-mysql.c
outbound_mysql_free ==
    LET f == "go/mysql/outbound-mysql.c"
        string_t == List(U8)
        mysql_error_t == Variant(<<Unit, string_t, string_t, string_t,
                                   string_t, string_t>>)
        column_t == Record(<<string_t, Enum(14)>>)
        db_value_t == Variant(<<Bool, U8, U16, U32, U64, U8, U16, U32, U64,
                                U32, U64, string_t, List(U8), Unit, Unit>>)
        parameter_value_t == Variant(<<Bool, U8, U16, U32, U64, U8, U16, U32,
                                       U64, U32, U64, string_t, List(U8),
                                       Unit>>)
        row_t == List(db_value_t)
        row_set_t == Record(<<List(column_t), List(row_t)>>)
        mysql_error_free ==
            FrSwitch((1 :> string_free) @@ (2 :> string_free)
                     @@ (3 :> string_free) @@ (4 :> string_free)
                     @@ (5 :> string_free))
        column_free == FrRec(<< <<1, string_free>> >>)
        list_u8_free == FrList(FrNone, 1, 1)
        db_value_free == FrSwitch((11 :> string_free) @@ (12 :> list_u8_free))
        parameter_value_free ==
            FrSwitch((11 :> string_free) @@ (12 :> list_u8_free))
        row_free == FrList(db_value_free, 16, 8)
        list_column_free == FrList(column_free, 12, 4)
        list_row_free == FrList(row_free, 8, 4)
        row_set_free == FrRec(<< <<1, list_column_free>>, <<2, list_row_free>> >>)
        list_parameter_value_free == FrList(parameter_value_free, 16, 8)
    IN << FreeFn("outbound_mysql_mysql_error_free", f, mysql_error_t,
                 mysql_error_free),
          FreeFn("outbound_mysql_column_free", f, column_t, column_free),
          FreeFn("outbound_mysql_db_value_free", f, db_value_t, db_value_free),
          FreeFn("outbound_mysql_row_free", f, row_t, row_free),
          FreeFn("outbound_mysql_list_column_free", f, List(column_t),
                 list_column_free),
          FreeFn("outbound_mysql_list_row_free", f, List(row_t), list_row_free),
          FreeFn("outbound_mysql_row_set_free", f, row_set_t, row_set_free),
          FreeFn("outbound_mysql_list_parameter_value_free", f,
                 List(parameter_value_t), list_parameter_value_free),
          FreeFn("outbound_mysql_expected_row_set_mysql_error_free", f,
                 Result(row_set_t, mysql_error_t),
                 FrSwitch((0 :> row_set_free) @@ (1 :> mysql_error_free))),
          FreeFn("outbound_mysql_expected_unit_mysql_error_free", f,
                 Result(Unit, mysql_error_t),
                 FrSwitch((0 :> FrNone) @@ (1 :> mysql_error_free))) >>

\* go/key-value/key-value.c
key_value_free ==
    LET f == "go/key-value/key-value.c"
        string_t == List(U8)
        error_free == FrSwitch(5 :> string_free)
        list_u8_free == FrList(FrNone, 1, 1)
        list_string_free == FrList(string_free, 8, 4)
    IN << FreeFn("key_value_error_free", f, key_value_error_t, error_free),
          FreeFn("key_value_list_u8_free", f, List(U8), list_u8_free),
          FreeFn("key_value_list_string_free", f, List(string_t),
                 list_string_free),
          FreeFn("key_value_expected_store_error_free", f,
                 Result(U32, key_value_error_t),
                 FrSwitch((0 :> FrNone) @@ (1 :> error_free))),
          FreeFn("key_value_expected_list_u8_error_free", f,
                 Result(List(U8), key_value_error_t),
                 FrSwitch((0 :> list_u8_free) @@ (1 :> error_free))),
          FreeFn("key_value_expected_list_string_error_free", f,
                 Result(List(string_t), key_value_error_t),
                 FrSwitch((0 :> list_string_free) @@ (1 :> error_free))),
          FreeFn("key_value_string_free", f, string_t, string_free) >>

\* go/llm/llm.c
llm_free ==
    LET f == "go/llm/llm.c"
        string_t == List(U8)
        inferencing_result_t == Record(<<string_t, Record(<<U32, U32>>)>>)
        embeddings_result_t == Record(<<List(List(U32)), Record(<<U32>>)>>)
        error_free == FrSwitch((1 :> string_free) @@ (2 :> string_free))
        inferencing_result_free == FrRec(<< <<1, string_free>> >>)
        list_float32_free == FrList(FrNone, 4, 4)
        list_list_float32_free == FrList(list_float32_free, 8, 4)
        embeddings_result_free == FrRec(<< <<1, list_list_float32_free>> >>)
    IN << FreeFn("llm_error_free", f, llm_error_t, error_free),
          FreeFn("llm_inferencing_result_free", f, inferencing_result_t,
                 inferencing_result_free),
          FreeFn("llm_list_float32_free", f, List(U32), list_float32_free),
          FreeFn("llm_list_list_float32_free", f, List(List(U32)),
                 list_list_float32_free),
          FreeFn("llm_embeddings_result_free", f, embeddings_result_t,
                 embeddings_result_free),
          FreeFn("llm_list_string_free", f, List(string_t),
                 FrList(string_free, 8, 4)),
          FreeFn("llm_expected_inferencing_result_error_free", f,
                 Result(inferencing_result_t, llm_error_t),
                 FrSwitch((0 :> inferencing_result_free) @@ (1 :> error_free))),
          FreeFn("llm_expected_embeddings_result_error_free", f,
                 Result(embeddings_result_t, llm_error_t),
                 FrSwitch((0 :> embeddings_result_free) @@ (1 :> error_free))) >>

\* go/sqlite/sqlite.c
sqlite_free ==
    LET f == "go/sqlite/sqlite.c"
        string_t == List(U8)
        value_t == Variant(<<U64, U64, string_t, List(U8), Unit>>)
        row_result_t == Record(<<List(value_t)>>)
        query_result_t == Record(<<List(string_t), List(row_result_t)>>)
        error_free == FrSwitch(4 :> string_free)
        list_string_free == FrList(string_free, 8, 4)
        list_u8_free == FrList(FrNone, 1, 1)
        value_free == FrSwitch((2 :> string_free) @@ (3 :> list_u8_free))
        list_value_free == FrList(value_free, 16, 8)
        row_result_free == FrRec(<< <<1, list_value_free>> >>)
        list_row_result_free == FrList(row_result_free, 8, 4)
        query_result_free == FrRec(<< <<1, list_string_free>>,
                                      <<2, list_row_result_free>> >>)
    IN << FreeFn("sqlite_error_free", f, sqlite_error_t, error_free),
          FreeFn("sqlite_value_free", f, value_t, value_free),
          FreeFn("sqlite_list_value_free", f, List(value_t), list_value_free),
          FreeFn("sqlite_row_result_free", f, row_result_t, row_result_free),
          FreeFn("sqlite_list_row_result_free", f, List(row_result_t),
                 list_row_result_free),
          FreeFn("sqlite_query_result_free", f, query_result_t,
                 query_result_free),
          FreeFn("sqlite_expected_connection_error_free", f,
                 Result(U32, sqlite_error_t),
                 FrSwitch((0 :> FrNone) @@ (1 :> error_free))),
          FreeFn("sqlite_expected_query_result_error_free", f,
                 Result(query_result_t, sqlite_error_t),
                 FrSwitch((0 :> query_result_free) @@ (1 :> error_free))) >>

\* go/config/spin-config.c
spin_config_free ==
    LET f == "go/config/spin-config.c"
        string_t == List(U8)
        error_free == FrSwitch((0 :> string_free) @@ (1 :> string_free)
                               @@ (2 :> string_free) @@ (3 :> string_free))
    IN << FreeFn("spin_config_string_free", f, string_t, string_free),
          FreeFn("spin_config_error_free", f, spin_config_error_t, error_free),
          FreeFn("spin_config_expected_string_error_free", f,
                 Result(string_t, spin_config_error_t),
                 FrSwitch((0 :> string_free) @@ (1 :> error_free))) >>

FreeFns ==
    spin_http_free("go/http/spin-http.c") \o spin_http_free("nim/spin-http.c")
    \o outbound_mysql_free \o key_value_free \o llm_free \o sqlite_free
    \o spin_config_free

\* The buffers value v of type T owns: one [ptr, len, el] for each string
\* or list reachable through record fields, list elements and the active
\* case of each variant; el is the element type.
RECURSIVE Buffers(_, _)
Buffers(T, v) ==
    CASE T.k \in {"list", "pair"} ->
            { [ptr |-> v.ptr, len |-> v.len, el |-> ElemType(T)] }
            \cup UNION { Buffers(ElemType(T), v.elems[i]) : i \in DOMAIN v.elems }
      [] T.k = "record"  ->
            UNION { Buffers(T.fields[i], v[i]) : i \in DOMAIN T.fields }
      [] T.k = "variant" ->
            IF v.tag + 1 \in DOMAIN T.cases
            THEN Buffers(T.cases[v.tag + 1], v.val) ELSE {}
      [] OTHER           -> {}

\* Shapes of the values built: the length of every string and list, and
\* the case held by an outer variant and by a variant nested in it.
Choices ==
    [len : 0..MaxLen,
     tags : { <<0, 0>>, <<0, 11>>, <<0, 12>>, <<1, 0>>, <<1, 1>>, <<1, 2>>,
              <<1, 3>>, <<1, 4>>, <<1, 5>>, <<2, 0>>, <<3, 0>>, <<4, 0>>, <<5, 0>>,
              <<11, 0>>, <<12, 0>> }]

\* The first n of the canonical_abi_free calls cs applied to heap h by the
\* allocator of file f: the heap, the pointers handed to libc free, and
\* whether libc free was handed a pointer that is neither NULL nor live.
RECURSIVE ApplyFrees(_, _, _, _)
ApplyFrees(f, h, cs, n) ==
    IF n = 0 THEN [heap |-> h, libc |-> <<>>, ub |-> FALSE]
    ELSE LET p == ApplyFrees(f, h, cs, n - 1)
             r == canonical_abi_free(f, p.heap, cs[n][1], cs[n][2], cs[n][3])
         IN [heap |-> r.heap,
             libc |-> IF r.libc THEN Append(p.libc, cs[n][1]) ELSE p.libc,
             ub |-> p.ub \/ (r.libc /\ cs[n][1] \notin p.heap \cup {NULL})]

NoObj == [j |-> 0, val |-> 0, from |-> [op |-> "none"]]
NoFreeLog ==
    [runs |-> 0, arg |-> 0, calls |-> <<>>, libc |-> <<>>, heapBefore |-> {},
     past |-> <<>>]

\* A value of the type free function FreeFns[j] takes comes into being in
\* guest memory (built by the guest or, through canonical_abi_realloc, by
\* the host).  A buffer of no elements is a live block only when the linked
\* allocator hands size 0 to libc.  The value made for a later export call
\* lies at addresses no earlier value occupies.
MakeObj(j, c) ==
    LET fn == FreeFns[j]
        v == Build(fn.ty, calls + 1, c, 0)
    IN /\ ~aborted
       /\ pc = "idle"
       /\ obj.from.op \in {"none", "served"}
       /\ Focus(fn.file)
       /\ obj' = [j |-> j, val |-> v, from |-> [op |-> "built"]]
       /\ heap' = heap \cup { b.ptr : b \in { x \in Buffers(fn.ty, v) :
                                  x.len > 0 \/ linked \in UnguardedFiles } }
       /\ freeLog' = NoFreeLog
       /\ UNCHANGED <<linked, allocCall, aborted, argLog, kept>>
       /\ UNCHANGED codecVars

\* Guest code runs free function FreeFns[j] on the value at hand.  Handing
\* libc free a pointer that is not live is undefined: the process may or
\* may not survive it.
FreeObj(j) ==
    LET fn == FreeFns[j]
        r == FreeRun(fn.fd, obj.val)
        a == ApplyFrees(linked, heap, r.calls, Len(r.calls))
    IN /\ ~aborted
       /\ obj.j = j
       /\ freeLog.runs < MaxFrees
       /\ obj' = [obj EXCEPT !.val = r.val]
       /\ heap' = a.heap
       /\ freeLog' = [runs |-> freeLog.runs + 1, arg |-> obj.val,
                      calls |-> r.calls, libc |-> a.libc, heapBefore |-> heap,
                      past |-> freeLog.past \o freeLog.libc]
       /\ aborted' \in (IF a.ub THEN {TRUE, FALSE} ELSE {FALSE})
       /\ UNCHANGED <<linked, allocCall, argLog, kept>>
       /\ UNCHANGED codecVars

\* NUL-terminated C strings of guest code: the address of the first byte
\* and the bytes before the terminator.
CStrings ==
    { [addr |-> 3, bytes |-> [i \in 1..n |-> 96 + i]] : n \in 0..MaxLen }

strlen(s) == Len(s.bytes)

\* the free functions *_string_free of the linked component
StringFrees ==
    { j \in DOMAIN FreeFns : /\ FreeFns[j].fd = string_free
                             /\ Focus(FreeFns[j].file) }

\* <prefix>_string_set(ret, s):  ret->ptr = (char*) s; ret->len = strlen(s);
\* The string borrows s; no free function is to be run on it.
StringSet(s) ==
    /\ ~aborted
    /\ pc = "idle"
    /\ obj.from.op = "none"
    /\ StringFrees # {}
    /\ obj' = [j |-> 0,
               val |-> [ptr |-> s.addr, len |-> strlen(s), elems |-> s.bytes],
               from |-> [op |-> "set", s |-> s, heapBefore |-> heap]]
    /\ freeLog' = NoFreeLog
    /\ UNCHANGED <<argLog, kept>>
    /\ UNCHANGED allocVars
    /\ UNCHANGED codecVars

\* <prefix>_string_dup(ret, s):
\*   ret->len = strlen(s);
\*   ret->ptr = canonical_abi_realloc(NULL, 0, 1, ret->len);
\*   memcpy(ret->ptr, s, ret->len);
\* When the allocator aborts nothing is stored through ret.
StringDup(j, s) ==
    /\ ~aborted
    /\ pc = "idle"
    /\ obj.from.op = "none"
    /\ j \in StringFrees
    /\ \E o \in ReallocOutcomes(heap, NULL, strlen(s)) :
          LET r == canonical_abi_realloc(linked, heap, NULL, 0, 1, strlen(s),
                                         o[1], o[2]) IN
          /\ heap' = r.heap
          /\ aborted' = r.abort
          /\ allocCall' = [fn |-> "realloc", ptr |-> NULL,
                           size |-> strlen(s), align |-> 1, ret |-> r.ret,
                           returned |-> r.returned, libc |-> r.libc,
                           heapBefore |-> heap]
          /\ obj' = [j |-> j,
                     val |-> IF r.returned
                             THEN [ptr |-> r.ret, len |-> strlen(s),
                                   elems |-> [i \in 1..strlen(s) |-> s.bytes[i]]]
                             ELSE [ptr |-> NULL, len |-> strlen(s),
                                   elems |-> <<>>],
                     from |-> [op |-> "dup", s |-> s, heapBefore |-> heap]]
    /\ freeLog' = NoFreeLog
    /\ UNCHANGED <<linked, argLog, kept>>
    /\ UNCHANGED codecVars

\* The blocks libc hands the example handler during export call s: the
\* two header strings, the header tuple and the body.
HandlerBlocks(s) == { 16 * (MaxBlocks + 4 * (s - 1) + k) : k \in 1..4 }

\* the response the example handler stores through its second parameter
example_response(s) ==
    LET at(k) == TagWord(16 * (MaxBlocks + 4 * (s - 1) + k)) IN
    << <<200, 0>>,
       [tag |-> 1, val |-> [ptr |-> at(3), len |-> <<1, 0, 0, 0>>]],
       [tag |-> 1, val |-> [ptr |-> at(4), len |-> <<16, 0, 0, 0>>]] >>

\* The go handle-http-request wrapper calls the handler of the http-cpp
\* example on the request the runtime built, and returns:
\*   spin_http_string_dup(&header_name, "foo");
\*   spin_http_string_dup(&header_value, "bar");
\*   header = malloc(sizeof(spin_http_tuple2_string_string_t));
\*   body = malloc(body_length);  memcpy(...);
\*   response->status = 200; response->headers = some(header, 1);
\*   response->body = some(body, body_length);
\* The handler makes no other call.  When libc has no memory left the
\* allocator aborts, or a store through malloc's NULL traps, and the export
\* does not return.
spin_http_handle_http_request ==
    LET e == export_spin_http_handle_http_request
        ret == example_response(calls)
        ws == ExportWrites(e, ret)
    IN /\ ~aborted
       /\ pc = "handler"
       /\ cur = e.name
       /\ obj.from.op = "built"
       /\ FreeFns[obj.j].name = "spin_http_request_free"
       /\ \/ /\ heap' = heap \cup HandlerBlocks(calls)
             /\ retArea' = [retArea EXCEPT ![e.file] = ApplyWrites(@, ws, Len(ws))]
             /\ handlerRet' = [name |-> e.name, val |-> ret]
             /\ trace' = [kind |-> "export",
                          accesses |-> { <<ws[n][1], Len(ws[n][2])>> : n \in DOMAIN ws },
                          okRead |-> FALSE, errRead |-> FALSE,
                          isErr |-> FALSE, relayed |-> FALSE]
             /\ retval' = AreaBase(e.file)
             /\ pc' = "idle"
             /\ obj' = [obj EXCEPT !.from = [op |-> "served"]]
             /\ UNCHANGED aborted
          \/ /\ aborted' = TRUE
             /\ UNCHANGED <<heap, retArea, handlerRet, trace, retval, pc, obj>>
       /\ UNCHANGED <<areaState, cur, hostVal, ret0, calls>>
       /\ UNCHANGED <<linked, allocCall>>
       /\ UNCHANGED <<kept, freeLog, argLog>>

----------------------------------------------------------------------------
(* Specifications *)

Init ==
    /\ InitAllocVars
    /\ retArea = [f \in AreaFiles |-> ZeroArea(f)]
    /\ areaState = [f \in AreaFiles |-> "idle"]
    /\ pc = "idle"
    /\ cur = ""
    /\ hostVal = <<>>
    /\ ret0 = <<>>
    /\ retval = <<>>
    /\ trace = NoTrace
    /\ handlerRet = [name |-> "", val |-> <<>>]
    /\ calls = 0
    /\ kept = NoKept
    /\ obj = NoObj
    /\ freeLog = NoFreeLog
    /\ argLog = NoArgLog

\* the allocator entry points
NextAlloc ==
    \/ \E ptr \in {NULL} \cup Blocks, orig_size \in {0, MaxSize},
          align \in Aligns, new_size \in Sizes :
          Realloc(ptr, orig_size, align, new_size)
    \/ \E ptr \in {NULL} \cup Blocks, size \in Sizes, align \in Aligns :
          Free(ptr, size, align)

\* the import and export wrappers
NextCodec ==
    \/ \E i \in DOMAIN Imports : ImportCall(i)
    \/ \E i \in DOMAIN Imports : HostReturn(i)
    \/ HostRelay
    \/ \E i \in DOMAIN Imports, u \in Oracles : ImportDecode(i, u)
    \/ \E j \in DOMAIN Exports : ExportEnter(j)
    \/ \E j \in DOMAIN Exports : ExportReturn(j)

\* values in guest memory and their free functions
NextMem ==
    \/ \E j \in DOMAIN FreeFns, c \in Choices : MakeObj(j, c)
    \/ \E j \in DOMAIN FreeFns : FreeObj(j)
    \/ \E c \in CStrings : StringSet(c)
    \/ \E j \in DOMAIN FreeFns, c \in CStrings : StringDup(j, c)

\* successive import calls whose caller keeps an earlier result
NextReuse ==
    \/ \E i \in DOMAIN Imports : ImportCall(i)
    \/ \E i \in DOMAIN Imports : HostReturn(i)
    \/ \E i \in DOMAIN Imports, u \in Oracles : ImportDecode(i, u)
    \/ Retain

\* export calls whose handler calls an import
NextHandler ==
    \/ \E j \in DOMAIN Exports : ExportEnter(j)
    \/ \E i \in DOMAIN Imports : HandlerImport(i)
    \/ \E j \in DOMAIN Exports : ExportReturn(j)

\* the runtime serves successive requests through the example handler
NextExample ==
    \/ \E j \in DOMAIN FreeFns, c \in Choices :
          FreeFns[j].name = "spin_http_request_free" /\ MakeObj(j, c)
    \/ obj.from.op = "built" /\ ExportEnter(1)
    \/ spin_http_handle_http_request

Next == NextAlloc \/ NextCodec \/ NextMem \/ NextReuse \/ NextHandler
           \/ NextExample

SpecAlloc == Init /\ [][NextAlloc]_vars
SpecCodec == Init /\ [][NextCodec]_vars
SpecMem == Init /\ [][NextMem]_vars
SpecReuse == Init /\ [][NextReuse]_vars
SpecHandler == Init /\ [][NextHandler]_vars
SpecExample == Init /\ [][NextExample]_vars
Spec == Init /\ [][Next]_vars

----------------------------------------------------------------------------
(* Properties of the allocator *)

\* C1: in every binding file, canonical_abi_realloc called with
\* new_size = 0 returns a value equal to its align argument and never
\* invokes the underlying realloc.
C1_ZeroSizeReallocReturnsAlign ==
    (allocCall.fn = "realloc" /\ allocCall.size = 0)
        => /\ allocCall.returned
           /\ allocCall.ret = allocCall.align
           /\ ~allocCall.libc

\* C2: in every binding file, canonical_abi_free called with size = 0 is a
\* no-op: the pointer is never forwarded to the underlying free and the
\* allocator state is unchanged.
C2_ZeroSizeFreeIsNoOp ==
    (allocCall.fn = "free" /\ allocCall.size = 0)
        => /\ ~allocCall.libc
           /\ heap = allocCall.heapBefore

\* C3: canonical_abi_realloc never returns a null pointer: whenever it
\* returns, the value is not NULL, and for new_size > 0 it either returns
\* the live block obtained from the underlying realloc or the process has
\* aborted and nothing was returned.
C3_ReallocNeverReturnsNull ==
    allocCall.fn = "realloc"
        => /\ allocCall.returned => allocCall.ret # NULL
           /\ allocCall.size > 0 =>
                 \/ /\ allocCall.returned
                    /\ allocCall.libc
                    /\ allocCall.ret \in heap
                    /\ ~aborted
                 \/ /\ ~allocCall.returned
                    /\ allocCall.libc
                    /\ aborted

\* the underlying realloc failed for a request of positive size
C3_Witness ==
    /\ allocCall.fn = "realloc"
    /\ allocCall.size > 0
    /\ ~allocCall.returned
    /\ aborted

----------------------------------------------------------------------------
(* Properties of the wrappers *)

\* an import wrapper has just returned to its caller
ImportDone == pc = "idle" /\ trace.kind = "import"

\* an export wrapper has just returned to the host
ExportDone == pc = "idle" /\ trace.kind = "export"

\* the binding file of the wrapper named by cur
CurFile ==
    IF cur \in ImportNames THEN ImportNamed(cur).file
                           ELSE ExportNamed(cur).file

RECURSIVE InRange(_, _)
\* every variant discriminant inside value v of type T names a declared case
InRange(T, v) ==
    CASE T.k = "variant" ->
            /\ v.tag + 1 \in DOMAIN T.cases
            /\ InRange(T.cases[v.tag + 1], v.val)
      [] T.k = "record"  -> \A i \in DOMAIN T.fields : InRange(T.fields[i], v[i])
      [] OTHER           -> TRUE

\* C4: the bytes the nim handle-http-request export writes for a response,
\* placed as the ok payload (offset 4, after tag byte 0) of a result and
\* decoded by the nim wasi_outbound_http_request, yield a response with
\* equal status, equal headers presence and (ptr, len) and equal body
\* presence and (ptr, len), and the wrapper reports success.
C4_ResponseRoundTrip ==
    (ImportDone /\ trace.relayed /\ cur = "nim_wasi_outbound_http_request")
        => /\ retval = <<255>>
           /\ ret0[1] = handlerRet.val[1]
           /\ ret0[2] = handlerRet.val[2]
           /\ ret0[3] = handlerRet.val[3]

\* status 200, headers = some of one pair, body = some of the six bytes of
\* "Hello!" came back from the round trip
C4_Witness ==
    /\ ImportDone
    /\ trace.relayed
    /\ cur = "nim_wasi_outbound_http_request"
    /\ handlerRet.val[2].tag = 1
    /\ handlerRet.val[3].tag = 1
    /\ ret0[1] = <<200, 0>>
    /\ ret0[2].tag = 1
    /\ ret0[2].val.len = <<1, 0, 0, 0>>
    /\ ret0[3].tag = 1
    /\ ret0[3].val.len = <<6, 0, 0, 0>>

\* C5: outbound_pg_execute decodes domain errors as ordinary values: when
\* the host wrote result tag 1, error tag k in 1..5 and string (p, l), the
\* wrapper sets ret0->is_err, ret0->val.err.tag = k and case k's string to
\* (p, l); when the host wrote tag 0 and a 64-bit n, it sets is_err = false
\* and val.ok = n.
C5_PgExecuteDecodesDomainErrors ==
    (ImportDone /\ cur = "outbound_pg_execute")
        => /\ (hostVal.tag = 1 /\ hostVal.val.tag \in 1..5)
                 => /\ ret0.tag = 1
                    /\ ret0.val.tag = hostVal.val.tag
                    /\ ret0.val.val.ptr = hostVal.val.val.ptr
                    /\ ret0.val.val.len = hostVal.val.val.len
           /\ hostVal.tag = 0
                 => /\ ret0.tag = 0
                    /\ ret0.val = hostVal.val

\* the host reported query_failed (case 3) and the wrapper delivered it
C5_Witness ==
    /\ ImportDone
    /\ cur = "outbound_pg_execute"
    /\ hostVal.tag = 1
    /\ hostVal.val.tag = 3
    /\ ret0.tag = 1
    /\ ret0.val.tag = 3
    /\ ret0.val.val = hostVal.val.val

\* C6: no import wrapper reads or copies the payload of an inactive result
\* case: when the host reports err (tag 1) the ok member is never read, and
\* when it reports ok (tag 0) the err member is never read.
C6_InactiveCaseNeverRead ==
    ImportDone
        => /\ hostVal.tag = 1 => ~trace.okRead
           /\ hostVal.tag = 0 => ~trace.errRead

\* C7: when the result tag or a nested variant tag in the return area is
\* outside [0, caseCount), the import wrapper does not return a value to
\* its caller: an import wrapper only ever completes on a result all of
\* whose discriminants, as the host wrote them, name declared cases.
C7_OutOfRangeTagRejected ==
    ImportDone => InRange(ImportNamed(cur).ty, hostVal)

C9_AccessesWithinArea ==
    (ImportDone \/ ExportDone)
        => \A acc \in trace.accesses :
              /\ 0 <= acc[1]
              /\ acc[1] + acc[2] <= AreaSize(CurFile)

\* outbound_pg_execute read the last four bytes of its 20-byte area
C9_Witness ==
    /\ ImportDone
    /\ cur = "outbound_pg_execute"
    /\ <<16, 4>> \in trace.accesses
    /\ AreaSize(CurFile) = 16 + 4

\* The handler result of export e as a value of the export's result type;
\* for handle-redis-message the handler returns a spin_redis_error_t, 255
\* (-1) standing for success.
TypedResult(e, ret) ==
    IF e.name = "export_spin_redis_handle_redis_message"
    THEN IF ret = <<255>> THEN [tag |-> 0, val |-> <<>>]
                          ELSE [tag |-> 1, val |-> ret]
    ELSE ret

\* the handler results that are values of the export's result type
WellTyped(e, ret) ==
    e.name = "export_spin_redis_handle_redis_message"
        => ret \in { <<0>>, <<1>>, <<255>> }

\* C10: every invocation of an export returns the base address of its
\* file's static RET_AREA, at that moment the area holds the encoding of
\* the result the handler produced in this invocation, and no area is ever
\* resized.
C10_ExportReturnsEncodedResult ==
    /\ \A f \in AreaFiles : DOMAIN retArea[f] = 0..(AreaSize(f) - 1)
    /\ ExportDone =>
          LET e == ExportNamed(cur)
              a == retArea[e.file]
              v == TypedResult(e, handlerRet.val)
          IN /\ retval = AreaBase(e.file)
             /\ handlerRet.name = cur
             /\ WellTyped(e, handlerRet.val)
                   => IF e.abi = "old" THEN OldLower(a, e.ty, v) = a
                                       ELSE Lower(a, 0, e.ty, v) = a

\* the go handle-http-request export returned from its second invocation,
\* with headers and body present
C10_Witness ==
    /\ ExportDone
    /\ cur = "export_spin_http_handle_http_request"
    /\ calls = 2
    /\ handlerRet.val[2].tag = 1
    /\ handlerRet.val[3].tag = 1
    /\ retval = AreaBase("go/http/spin-http.c")

----------------------------------------------------------------------------
(* Properties of the free functions *)

\* the free function that ran last, on a value nothing had freed before
FreedOnce == obj.j # 0 /\ freeLog.runs = 1
CurFree == FreeFns[obj.j]

\* the addresses of the parts that enclose the part at a, a included
RECURSIVE Up(_)
Up(a) == IF a < 1 THEN {} ELSE {a} \cup Up(a \div Fanout)

\* buffer x is to be released before buffer y: x is nested inside y, or
\* the two lie in different parts of a common enclosing value and the part
\* holding x has the lower index (field in declaration order, element in
\* index order)
Precedes(x, y) ==
    \/ x # y /\ y \in Up(x)
    \/ /\ x \notin Up(y) /\ y \notin Up(x)
       /\ \E ax \in Up(x), ay \in Up(y) :
             ax # ay /\ ax \div Fanout = ay \div Fanout /\ ax < ay

\* C11: every free function releases nested allocations before the buffer
\* that holds them, the elements of a list in ascending index order and the
\* fields of a record in declaration order.
C11_FreeOrder ==
    FreedOnce =>
        \A p, q \in DOMAIN freeLog.calls :
            Precedes(freeLog.calls[p][1], freeLog.calls[q][1]) => p < q

\* outbound_mysql_row_set_free ran on a row set of two columns and two
\* rows of two string values each
C11_Witness ==
    /\ FreedOnce
    /\ CurFree.name = "outbound_mysql_row_set_free"
    /\ freeLog.arg[1].len = 2
    /\ freeLog.arg[2].elems[2].elems[2].tag = 11
    /\ Len(freeLog.calls) = 10

\* C12: every canonical_abi_free call of a string or list free function
\* passes (ptr, len * S, A) with S and A the size and alignment the layout
\* rules give the element type of the buffer being released.
C12_FreeSizeAndAlign ==
    FreedOnce =>
        \A p \in DOMAIN freeLog.calls :
            \E b \in Buffers(CurFree.ty, freeLog.arg) :
                freeLog.calls[p] =
                    <<b.ptr, b.len * Size(b.el), Align(b.el)>>

\* outbound_mysql_row_set_free released two columns as (ptr, 24, 4), a row
\* of two values as (ptr, 32, 8) and the two rows as (ptr, 16, 4)
C12_Witness ==
    /\ FreedOnce
    /\ CurFree.name = "outbound_mysql_row_set_free"
    /\ \E p, q, r \in DOMAIN freeLog.calls :
          /\ freeLog.calls[p] = <<freeLog.arg[1].ptr, 24, 4>>
          /\ freeLog.calls[q] = <<freeLog.arg[2].elems[1].ptr, 32, 8>>
          /\ freeLog.calls[r] = <<freeLog.arg[2].ptr, 16, 4>>

\* C13: a free function run on an absent option, or on a variant whose
\* active case owns no memory, calls canonical_abi_free not at all and
\* leaves the value and the heap as they were.
C13_FreeOfNothingIsNoOp ==
    /\ obj.j # 0
    /\ freeLog.runs > 0
    /\ CurFree.ty.k = "variant"
    /\ Buffers(CurFree.ty, freeLog.arg) = {}
    => /\ freeLog.calls = <<>>
       /\ freeLog.libc = <<>>
       /\ obj.val = freeLog.arg
       /\ heap = freeLog.heapBefore
       /\ ~aborted

\* the nim spin_http_option_body_free ran on an absent body
C13_Witness ==
    /\ FreedOnce
    /\ CurFree.name = "spin_http_option_body_free"
    /\ CurFree.file = "nim/spin-http.c"
    /\ freeLog.arg.tag = 0

\* C20: spin_http_request_free, applied once to a well-formed request whose
\* buffers are pairwise distinct, passes every buffer the request owns to
\* canonical_abi_free exactly once and passes nothing else.
C20_RequestFreeExactlyOnce ==
    FreedOnce /\ CurFree.name = "spin_http_request_free" =>
        LET owned == { b.ptr : b \in Buffers(CurFree.ty, freeLog.arg) } IN
        /\ \A a \in owned :
              Cardinality({ p \in DOMAIN freeLog.calls :
                              freeLog.calls[p][1] = a }) = 1
        /\ \A p \in DOMAIN freeLog.calls : freeLog.calls[p][1] \in owned

\* the go spin_http_request_free ran on a request with two headers, two
\* params and a body: 12 buffers, 12 calls
C20_Witness ==
    /\ FreedOnce
    /\ CurFree.name = "spin_http_request_free"
    /\ CurFree.file = "go/http/spin-http.c"
    /\ freeLog.arg[3].len = 2
    /\ freeLog.arg[5].tag = 1
    /\ Cardinality(Buffers(CurFree.ty, freeLog.arg)) = 12
    /\ Len(freeLog.calls) = 12

----------------------------------------------------------------------------
(* Properties of argument lowering *)

\* an import wrapper whose lowering is modelled has passed its arguments
Lowered == argLog.fn # "" /\ argLog.scalars # <<>>

\* the string and list arguments among the arguments x of a call
BufferArgs(x) ==
    { x[i] : i \in { n \in DOMAIN x : DOMAIN x[n] = {"ptr", "len"} } }
    \cup { x[i].val : i \in { n \in DOMAIN x :
                                /\ DOMAIN x[n] = {"tag", "val"}
                                /\ x[n].tag = 1
                                /\ DOMAIN x[n].val = {"ptr", "len"} } }

\* the (pointer, count) word pairs adjacent in the passed scalars
PassedPairs ==
    { [ptr |-> argLog.scalars[n], len |-> argLog.scalars[n + 1]] :
        n \in 1..(Len(argLog.scalars) - 1) }

C16_RequestRoundTrip ==
    /\ argLog.fn \in {"wasi_outbound_http_request",
                      "nim_wasi_outbound_http_request"} =>
          /\ Len(argLog.scalars) = 10
          /\ argLog.ptr = AreaBase(ImportNamed(argLog.fn).file)
    /\ argLog.relayed /\ pc = "handler" => hostVal = argLog.args

\* the nim export lifted a relayed request that has a body
C16_Witness ==
    /\ argLog.relayed
    /\ pc = "handler"
    /\ argLog.fn = "nim_wasi_outbound_http_request"
    /\ argLog.args[5].tag = 1
    /\ argLog.args[1] = <<6>>
    /\ hostVal = argLog.args

\* the go export lifted a relayed request without a body
C16_WitnessGo ==
    /\ argLog.relayed
    /\ pc = "handler"
    /\ argLog.fn = "wasi_outbound_http_request"
    /\ argLog.args[5].tag = 0

----------------------------------------------------------------------------
(* Properties of result decoding *)

\* an import wrapper decodes its return area and returns
DecodeStep == pc \in {"populated", "relayed"} /\ pc' = "idle"

\* the (ptr, len) made of the two words at off and off + 4 of area a
WordsAt(a, off) == [ptr |-> Load(a, off, 4), len |-> Load(a, off + 4, 4)]

\* C15: decoding a string or list result borrows.  The decode of an import
\* wrapper calls neither canonical_abi_realloc nor canonical_abi_free, leaves
\* the heap, every return area and the values in guest memory as they were,
\* and each (ptr, len) of an ok result is exactly the two words the host
\* left in the return area.
C15_DecodeBorrows ==
    [][ DecodeStep =>
          LET w == ImportNamed(cur)
              a == retArea[w.file]
              po == PayloadOffset(w.ty)
              got == IF w.style = "expected" THEN ret0'.val ELSE ret0'
          IN /\ allocCall' = allocCall
             /\ heap' = heap
             /\ retArea' = retArea
             /\ obj' = obj
             /\ w.abi = "new" /\ w.style # "errcode" /\ a[0] = 0 =>
                   /\ w.ty.cases[1] = Pair => got = WordsAt(a, po)
                   /\ w.ty.cases[1] = RowSet =>
                         got = <<WordsAt(a, po), WordsAt(a, po + 8)>>
      ]_vars

\* sqlite_execute has delivered an ok query result whose columns and rows
\* are the four words of the area
C15_Witness ==
    /\ ImportDone
    /\ cur = "sqlite_execute"
    /\ ret0.tag = 0
    /\ ret0.val = <<WordsAt(retArea["go/sqlite/sqlite.c"], 4),
                    WordsAt(retArea["go/sqlite/sqlite.c"], 12)>>
    /\ ret0.val[1].ptr # ret0.val[2].ptr

\* v is a value of the result type T: its tags name declared cases and an
\* error of an enum type is one of the enum's declared values
DeclaredResult(T, v) ==
    /\ InRange(T, v)
    /\ v.tag = 1 /\ T.cases[2].k = "enum" => v.val[1] < T.cases[2].n

C17_WitnessOk ==
    /\ ImportDone
    /\ cur = "outbound_redis_get"
    /\ hostVal.tag = 0
    /\ retval = <<255>>
    /\ ret0 = hostVal.val

----------------------------------------------------------------------------
(* Agreement of the go export encoder and import decoder *)

\* the go wasi_outbound_http_request has decoded a response relayed from the
\* go handle-http-request export
GoRelayed == ImportDone /\ trace.relayed /\ cur = "wasi_outbound_http_request"

\* C18: in the older 8-byte-slot ABI of the go SDK the handle-http-request
\* export stores status, headers tag, ptr, len, body tag, ptr, len at
\* offsets 0, 8, .., 48; wasi_outbound_http_request reads the result tag at
\* 0 and those fields at the same offsets plus 8; and a response written by
\* the export and placed at payload offset 8 decodes to an equal response.
C18_GoResponseLayoutAgrees ==
    /\ ExportDone /\ cur = "export_spin_http_handle_http_request" =>
          trace.accesses = { <<8 * n, 4>> : n \in 0..6 }
    /\ GoRelayed =>
          LET written == { go_response_writes(handlerRet.val)[n][1] :
                             n \in 1..7 }
          IN /\ written = { 8 * n : n \in 0..6 }
             /\ trace.accesses \subseteq
                   { <<0, 4>> } \cup { <<o + 8, 4>> : o \in written }
             /\ handlerRet.val[2].tag = 1 /\ handlerRet.val[3].tag = 1 =>
                   trace.accesses =
                      { <<0, 4>> } \cup { <<o + 8, 4>> : o \in written }
             /\ retval = <<255>>
             /\ ret0 = handlerRet.val

\* a response with headers and a body went from the go export to the go
\* import and came out equal
C18_Witness ==
    /\ GoRelayed
    /\ handlerRet.name = "export_spin_http_handle_http_request"
    /\ handlerRet.val[1] = <<200, 0>>
    /\ handlerRet.val[2].tag = 1
    /\ handlerRet.val[3].tag = 1
    /\ ret0[3].val.len = <<6, 0, 0, 0>>
    /\ Cardinality(trace.accesses) = 8

----------------------------------------------------------------------------
(* Results held across later calls *)

\* the caller holds the result of an earlier call of wrapper kept.name, and
\* a later call through the same RET_AREA has been decoded
HeldAcrossCall ==
    /\ kept.name # ""
    /\ ImportDone
    /\ calls >= 2
    /\ ImportNamed(cur).file = ImportNamed(kept.name).file

\* C19: a result delivered by an import wrapper is unchanged by later calls
\* that overwrite the same RET_AREA.  Whatever the area holds now, the
\* result kept from the earlier call is still the value the host produced
\* for that call: the whole expected value through ret0, or the ok payload
\* through ret0 and 255 or the error byte as return value.
C19_DeliveredResultStable ==
    kept.name # "" /\ DeclaredResult(ImportNamed(kept.name).ty, kept.host) =>
        LET w == ImportNamed(kept.name) IN
        CASE w.style = "expected" -> kept.ret0 = kept.host
          [] w.style = "okmember" ->
                /\ kept.host.tag = 0 => kept.ret0 = kept.host.val
                /\ kept.retval = IF kept.host.tag = 0 THEN <<255>>
                                 ELSE kept.host.val
          [] w.style = "errcode" ->
                kept.retval = IF kept.host.tag = 0 THEN <<255>>
                              ELSE kept.host.val

\* key_value_get delivered an ok value, the caller kept it, and a later
\* key-value call that ended in an error overwrote RET_AREA
C19_Witness ==
    /\ HeldAcrossCall
    /\ kept.name = "key_value_get"
    /\ kept.host.tag = 0
    /\ kept.ret0 = kept.host
    /\ hostVal.tag = 1
    /\ retArea["go/key-value/key-value.c"][0] = 1

----------------------------------------------------------------------------
(* Further properties of the free functions *)

\* the free function of an expected value: if (!ptr->is_err) ok else err
\* (its type is a result whose second case is the error variant)
ExpectedFree(fn) == /\ fn.ty.k = "variant"
                    /\ Len(fn.ty.cases) = 2
                    /\ fn.ty.cases[2].k = "variant"

\* C21: the free function of an expected value releases exactly the buffers
\* owned by the active case, each once: with is_err false those of the ok
\* payload (none when the ok type owns no memory), with is_err true the one
\* string of the error's active case (none when that case carries none);
\* it leaves is_err as it was.
C21_ExpectedFreeActiveCaseOnly ==
    FreedOnce /\ ExpectedFree(CurFree) =>
        LET v == freeLog.arg
            T == CurFree.ty
            active == { b.ptr : b \in Buffers(T.cases[v.tag + 1], v.val) }
        IN /\ { freeLog.calls[p][1] : p \in DOMAIN freeLog.calls } = active
           /\ Len(freeLog.calls) = Cardinality(active)
           /\ v.tag = 0 /\ T.cases[1].k \in {"prim", "unit"} =>
                 freeLog.calls = <<>>
           /\ v.tag = 1 =>
                 /\ Len(freeLog.calls) <= 1
                 /\ \A p \in DOMAIN freeLog.calls :
                       /\ freeLog.calls[p][1] = v.val.val.ptr
                       /\ freeLog.calls[p][3] = 1
           /\ obj.val.tag = v.tag

\* spin_config_expected_string_error_free ran on an error whose active
\* case is the last one and released that case's string only
C21_Witness ==
    /\ FreedOnce
    /\ CurFree.name = "spin_config_expected_string_error_free"
    /\ freeLog.arg.tag = 1
    /\ freeLog.arg.val.tag = 3
    /\ freeLog.arg.val.val.len = 2
    /\ Len(freeLog.calls) = 1

\* llm_expected_embeddings_result_error_free ran on an ok value
C21_WitnessOk ==
    /\ FreedOnce
    /\ CurFree.name = "llm_expected_embeddings_result_error_free"
    /\ freeLog.arg.tag = 0
    /\ Len(freeLog.calls) = 3

\* the elements of sequence q
Range(q) == { q[p] : p \in DOMAIN q }

\* C22: a list or byte-buffer free function leaves the value's ptr and len
\* as they were, so a second call on the same non-empty value hands libc
\* free the pointer the first call already handed it.
C22_ListDoubleFreeNotGuarded ==
    obj.j # 0 /\ CurFree.fd.k = "list" /\ freeLog.runs >= 1 =>
        /\ obj.val.ptr = freeLog.arg.ptr
        /\ obj.val.len = freeLog.arg.len
        /\ freeLog.arg.len > 0 =>
              /\ freeLog.arg.ptr \in Range(freeLog.libc)
              /\ freeLog.runs = 2 =>
                    /\ freeLog.arg.ptr \in Range(freeLog.past)
                    /\ freeLog.arg.ptr \notin freeLog.heapBefore

\* key_value_list_u8_free ran twice on a buffer of two bytes and libc free
\* received the buffer's pointer both times
C22_Witness ==
    /\ obj.j # 0
    /\ CurFree.name = "key_value_list_u8_free"
    /\ freeLog.runs = 2
    /\ freeLog.arg.len = 2
    /\ freeLog.libc = <<freeLog.arg.ptr>>
    /\ freeLog.past = <<freeLog.arg.ptr>>

\* C29: string_free is idempotent.  After one call the string has
\* ptr = NULL and len = 0; a further call passes (NULL, 0, 1) to
\* canonical_abi_free and releases nothing; over the whole sequence of calls
\* the backing buffer is handed to libc free at most once.
C29_StringFreeIdempotent ==
    obj.j # 0 /\ CurFree.fd.k = "string" /\ freeLog.runs >= 1 =>
        LET all == freeLog.past \o freeLog.libc IN
        /\ obj.val.ptr = NULL
        /\ obj.val.len = 0
        /\ freeLog.runs >= 2 =>
              /\ freeLog.calls = << <<NULL, 0, 1>> >>
              /\ heap = freeLog.heapBefore
              /\ Range(freeLog.libc) \subseteq {NULL}
        /\ Cardinality({ p \in DOMAIN all : all[p] # NULL }) <= 1
        /\ ~aborted

\* spin_http_string_free of the go SDK ran twice on a string of two bytes:
\* the first run handed its buffer to libc free, the second handed it NULL
C29_Witness ==
    /\ obj.j # 0
    /\ CurFree.name = "spin_http_string_free"
    /\ CurFree.file = "go/http/spin-http.c"
    /\ freeLog.runs = 2
    /\ freeLog.past = <<1>>
    /\ freeLog.calls = << <<NULL, 0, 1>> >>
    /\ freeLog.libc = <<NULL>>

\* spin_config_string_free ran twice: the second run did not reach libc
C29_WitnessGuarded ==
    /\ obj.j # 0
    /\ CurFree.name = "spin_config_string_free"
    /\ freeLog.runs = 2
    /\ freeLog.past = <<1>>
    /\ freeLog.libc = <<>>

----------------------------------------------------------------------------
(* string_set, string_dup and string_free *)

\* string_dup ran and, if control came back, string_free ran n times since
Dupped(n) == obj.from.op = "dup" /\ freeLog.runs = n

\* C30: string_dup sets len = strlen(s) and requests exactly len bytes with
\* alignment 1, into which the bytes of s are copied; string_set allocates
\* nothing and stores s's own pointer; for the empty string string_dup
\* never aborts and yields a non-null ptr with len 0, and the string_free
\* that follows reaches no real deallocation; a dup/free pair reaches the
\* real deallocator exactly when it reached the real allocator.
C30_StringDupFreePairing ==
    /\ obj.from.op = "dup" =>
          /\ allocCall.fn = "realloc"
          /\ allocCall.ptr = NULL
          /\ allocCall.size = strlen(obj.from.s)
          /\ allocCall.align = 1
    /\ Dupped(0) /\ ~aborted =>
          /\ obj.val.len = strlen(obj.from.s)
          /\ obj.val.ptr = allocCall.ret
          /\ obj.val.elems = obj.from.s.bytes
    /\ obj.from.op = "set" =>
          /\ heap = obj.from.heapBefore
          /\ allocCall = NoAllocCall
          /\ obj.val.ptr = obj.from.s.addr
          /\ obj.val.len = strlen(obj.from.s)
    /\ obj.from.op = "dup" /\ strlen(obj.from.s) = 0 =>
          /\ ~aborted
          /\ Dupped(0) => obj.val.ptr # NULL /\ obj.val.len = 0
          /\ Dupped(1) => freeLog.libc = <<>>
    /\ Dupped(1) => (freeLog.libc # <<>> <=> allocCall.libc)

\* the same statement for the binding files whose allocator entry points
\* test for size 0
C30_GuardedFilesOnly ==
    linked \in GuardedFiles => C30_StringDupFreePairing

\* key_value_string_dup of the empty string followed by
\* key_value_string_free: no allocator was reached
C30_WitnessGuarded ==
    /\ Dupped(1)
    /\ linked = "go/key-value/key-value.c"
    /\ strlen(obj.from.s) = 0
    /\ allocCall.ret = 1
    /\ ~allocCall.libc
    /\ freeLog.libc = <<>>

----------------------------------------------------------------------------
(* Further properties of the export wrappers *)

\* C26: the handle-redis-message export encodes an err result only for the
\* handler return values 0 and 1, the two declared cases of
\* spin_redis_error_t, and then writes that value as the error byte at
\* offset 1; for every other return value it writes tag 0 at offset 0; the
\* error byte it writes is always < 2.
C26_RedisErrOnlyForDeclaredCases ==
    ExportDone /\ cur = "export_spin_redis_handle_redis_message" =>
        LET a == retArea["go/redis/spin-redis.c"]
            ret == handlerRet.val[1]
        IN /\ a[0] = 1 <=> ret \in {0, 1}
           /\ a[0] = 1 => a[1] = ret /\ a[1] < 2
           /\ ret \notin {0, 1} => a[0] = 0

\* what does hold: the export encodes err exactly for the return values
\* that pass its test ret <= 2, and ok for the rest
C26_RedisErrForReturnUpTo2 ==
    ExportDone /\ cur = "export_spin_redis_handle_redis_message" =>
        LET a == retArea["go/redis/spin-redis.c"]
            ret == handlerRet.val[1]
        IN /\ a[0] = 1 <=> ret <= 2
           /\ a[0] = 1 => a[1] = ret
           /\ ret > 2 => a[0] = 0

----------------------------------------------------------------------------
(* Caller state on error *)

\* the object the caller's ret0 points to is as it was before the call: the
\* wrapper stored nothing through ret0
Ret0Untouched == DOMAIN ret0 = {}

\* C25: when the host reports err (result tag 1), a wrapper that returns the
\* error code and delivers the ok payload through ret0 (outbound_redis_get,
\* _incr, _smembers, _execute, wasi_outbound_http_request) leaves the
\* caller's *ret0 unmodified.
C25_Ret0UnchangedOnError ==
    ImportDone /\ ImportNamed(cur).style = "okmember" /\ hostVal.tag = 1
               /\ DeclaredResult(ImportNamed(cur).ty, hostVal) =>
        Ret0Untouched

----------------------------------------------------------------------------
(* No uninitialised data in lowered arguments *)

\* the option arguments among the arguments of the latest import call,
\* each with the position of its discriminant among the passed scalars and
\* the number of payload scalars that follow it
OptionArgs ==
    CASE argLog.fn = "llm_infer" ->
            { [arg |-> argLog.args[3], at |-> 5, n |-> 6] }
      [] argLog.fn \in {"wasi_outbound_http_request",
                        "nim_wasi_outbound_http_request"} ->
            { [arg |-> argLog.args[5], at |-> 8, n |-> 2] }
      [] OTHER -> {}

\* C27: when an option argument is absent the import wrapper passes
\* discriminant 0 and the constant 0 for every payload scalar (6 for the
\* inferencing params of llm_infer, 2 for an http request body), and the
\* scalars passed to the host are a function of the argument value alone:
\* whatever the wrapper's locals held before, the same scalars are passed.
C27_AbsentOptionLowersToZeros ==
    Lowered =>
        /\ \A o \in OptionArgs :
              o.arg.tag = 0 =>
                 \A i \in o.at..(o.at + o.n) : argLog.scalars[i] = Word0
        /\ \A u \in Oracles :
              ImportLower(ImportNamed(argLog.fn), argLog.args, u).scalars
                 = argLog.scalars

\* llm_infer was called without inferencing params and passed 11 scalars,
\* the last 7 of them 0
C27_Witness ==
    /\ argLog.fn = "llm_infer"
    /\ pc = "issued"
    /\ argLog.args[3].tag = 0
    /\ Len(argLog.scalars) = 11
    /\ \A i \in 5..11 : argLog.scalars[i] = Word0
    /\ argLog.scalars[1] # Word0

----------------------------------------------------------------------------
(* Contents of the nim export's return area *)

\* the nim handle-http-request export has returned
NimExportDone ==
    ExportDone /\ cur = "nim_export_spin_http_handle_http_request"

\* the area a first invocation leaves for response ret: the wrapper's
\* stores applied to the zero-initialised static area
FreshNimArea(ret) ==
    LET ws == nim_response_writes(ret) IN
    ApplyWrites(ZeroArea("nim/spin-http.c"), ws, Len(ws))

\* the bytes of the area that encode response ret: status, the two
\* discriminants, and pointer and length of each option that is present
EncodingBytes(ret) ==
    {0, 1, 4, 16}
    \cup (IF ret[2].tag # 0 THEN 8..15 ELSE {})
    \cup (IF ret[3].tag # 0 THEN 20..27 ELSE {})

\* C28 as stated: after the nim handle-http-request export returns, all 28
\* bytes of its RET_AREA are a function of this invocation's response: they
\* are the bytes a first invocation with that response leaves, whatever
\* earlier invocations produced.
C28_NimAreaDeterminedByResponse ==
    NimExportDone =>
        retArea["nim/spin-http.c"] = FreshNimArea(handlerRet.val)

\* C28: after the nim handle-http-request export returns, the bytes of its
\* RET_AREA that encode this invocation's response (status, both option
\* discriminants, pointer and length of each present option) are a function
\* of that response only; the remaining bytes are padding, which is never
\* written, or the payload words of an absent option, which keep what an
\* earlier invocation stored there.
C28_NimEncodingDeterminedByResponse ==
    NimExportDone =>
        LET a == retArea["nim/spin-http.c"]
            fresh == FreshNimArea(handlerRet.val)
        IN /\ \A i \in EncodingBytes(handlerRet.val) : a[i] = fresh[i]
           /\ \A i \in {2, 3, 5, 6, 7, 17, 18, 19} : a[i] = 0

\* a second invocation answered without headers after a first one answered
\* with headers: the first response's headers pointer is still in the area
C28_Witness ==
    /\ NimExportDone
    /\ calls = 2
    /\ handlerRet.val[2].tag = 0
    /\ retArea["nim/spin-http.c"][4] = 0
    /\ Load(retArea["nim/spin-http.c"], 8, 4) = Pattern(8, 4, 1)
    /\ Load(retArea["nim/spin-http.c"], 12, 4) = <<1, 0, 0, 0>>

----------------------------------------------------------------------------
(* When an export wrapper writes its return area *)

\* the file of the export in progress
HandlerFile == ExportNamed(cur).file

\* C24: an export wrapper writes RET_AREA only after the user handler has
\* returned.  No step that leaves control in the handler (the entry to the
\* export, an import call the handler makes) changes a byte of the export's
\* area, so the previous invocation's encoded result is intact while the
\* handler runs; and the step in which the handler returns and the wrapper
\* stores the result changes no other file's area, so what the handler's
\* import calls left in theirs is not overwritten.
C24_AreaWrittenAfterHandler ==
    [][ /\ pc' = "handler" =>
              retArea'[ExportNamed(cur').file] = retArea[ExportNamed(cur').file]
        /\ pc = "handler" /\ pc' = "idle" =>
              \A f \in AreaFiles \ {HandlerFile} : retArea'[f] = retArea[f]
      ]_vars

\* during the second invocation of the go handle-http-request export the
\* handler has made an outbound http request and the area still holds the
\* first invocation's response: status 200 with headers
C24_Witness ==
    /\ pc = "handler"
    /\ cur = "export_spin_http_handle_http_request"
    /\ calls = 2
    /\ trace.kind = "import"
    /\ handlerRet.name = cur
    /\ handlerRet.val[1] = <<200, 0>>
    /\ Load(retArea[HandlerFile], 0, 4) = <<200, 0, 0, 0>>
    /\ Load(retArea[HandlerFile], 8, 4) = Word1
    /\ retArea["go/http/wasi-outbound-http.c"] #
          ZeroArea("go/http/wasi-outbound-http.c")

----------------------------------------------------------------------------
(* The request buffers after the example handler has served a request *)

\* the buffers of the request just served that are still live
LiveRequestBuffers ==
    { b.ptr : b \in Buffers(FreeFns[obj.j].ty, obj.val) } \cap heap

\* C23: guest allocations do not accumulate across export calls.  When a
\* handle-http-request invocation served by the example handler has
\* returned, every buffer owned by the request passed to the handler has
\* been released.
C23_RequestReleasedOnReturn ==
    ExportDone /\ obj.from.op = "served" => LiveRequestBuffers = {}

====
